---------------------------- MODULE Spec2Model ----------------------------
(***************************************************************************)
(* Model of the ARM64 compatibility analysis engine of costnorm_mcp_server *)
(* (src/arm/src): the orchestrator, the forge client, the infra and        *)
(* container analyzers, the dependency manager and the verdict logic.      *)
(*                                                                         *)
(* Text is modelled as sequences: a URL is a sequence of characters, a     *)
(* file path, an instance type and a container-file line are sequences of  *)
(* tokens (a token is a maximal piece of text the code's patterns never    *)
(* split).                                                                 *)
(***************************************************************************)
EXTENDS Integers, Sequences, FiniteSets, TLC

VARIABLES
    github_url,              \* the argument of analyze_repository
    enabled,                 \* names n with ENABLED_ANALYZERS[n] = True
    pc,                      \* position inside analyze_repository
    owner, repo,             \* result of _extract_repo_info (empty before)
    default_branch,
    tree_items,              \* the tree returned by the forge
    todo,                    \* (analyzer, path) pairs still to fetch and analyze
    files_to_analyze,        \* analyzer name -> paths matched
    raw_analysis_outputs,    \* analyzer name -> per-file outputs
    files_analyzed_by_type,  \* analyzer name -> count
    total_files_analyzed,
    skipped,                 \* (analyzer, path, cause) of every file skipped
    aggregated_results,      \* analysis_key -> aggregate_results output
    combined_recommendations,
    combined_reasoning,
    requests,                \* forge requests issued so far, in order
    manifest_cache,          \* _DOCKER_MANIFEST_CACHE
    registry_requests,       \* container-registry requests issued so far
    raised,                  \* the exception that ended the run (type "None" if none)
    result,                  \* what analyze_repository returned (empty before)
    calls,                   \* the direct calls made so far: arguments, value, requests
    registry,                \* what the registries answer, fixed for the process
    _PYPI_CACHE,             \* python_checker._PYPI_CACHE
    _NPM_CACHE,              \* js_checker._NPM_CACHE
    _WHEEL_TESTER_CACHE,     \* python_checker._WHEEL_TESTER_CACHE
    _WHEEL_TESTER_CACHE_FETCHED

vars == << github_url, enabled, pc, owner, repo, default_branch, tree_items,
           todo, files_to_analyze, raw_analysis_outputs, files_analyzed_by_type,
           total_files_analyzed, skipped, aggregated_results,
           combined_recommendations, combined_reasoning, requests,
           manifest_cache, registry_requests, raised, result, calls, registry,
           _PYPI_CACHE, _NPM_CACHE, _WHEEL_TESTER_CACHE,
           _WHEEL_TESTER_CACHE_FETCHED >>

\* the state of the registry clients, which analyze_repository on its own
\* (with the answers of check_compatibility given) does not use
client_vars == << calls, registry, _PYPI_CACHE, _NPM_CACHE, _WHEEL_TESTER_CACHE,
                 _WHEEL_TESTER_CACHE_FETCHED >>

NoValue == "None"

-----------------------------------------------------------------------------
(* Sequence helpers *)

Range(s) == { s[i] : i \in 1..Len(s) }

StartsWith(s, p) == Len(p) <= Len(s) /\ SubSeq(s, 1, Len(p)) = p

EndsWith(s, p) == Len(p) <= Len(s) /\ SubSeq(s, Len(s) - Len(p) + 1, Len(s)) = p

Drop(s, n) == SubSeq(s, n + 1, Len(s))

RECURSIVE Flatten(_)
Flatten(ss) == IF ss = << >> THEN << >> ELSE Head(ss) \o Flatten(Tail(ss))

\* all sequences over S of length at most n
SeqsUpTo(S, n) == UNION { [1..k -> S] : k \in 0..n }

\* order-preserving removal of duplicates (dict.fromkeys / "if x not in seen")
RECURSIVE Dedupe(_)
Dedupe(s) ==
    IF s = << >> THEN << >>
    ELSE LET front == Dedupe(SubSeq(s, 1, Len(s) - 1))
             last  == s[Len(s)]
         IN  IF last \in Range(front) THEN front ELSE Append(front, last)

-----------------------------------------------------------------------------
(* _extract_repo_info: re.match of                                         *)
(*   https?://github\.com/([^/]+)/([^/\s]+?)(?:\.git)?/?$                  *)
(* on repo_url.strip()                                                     *)

Whitespace == { " ", "\n" }

RECURSIVE LStrip(_)
LStrip(s) == IF s # << >> /\ Head(s) \in Whitespace THEN LStrip(Tail(s)) ELSE s

RECURSIVE RStrip(_)
RStrip(s) ==
    IF s # << >> /\ s[Len(s)] \in Whitespace
    THEN RStrip(SubSeq(s, 1, Len(s) - 1)) ELSE s

Strip(s) == RStrip(LStrip(s))

HttpsGithub == << "h","t","t","p","s",":","/","/","g","i","t","h","u","b",".","c","o","m","/" >>
HttpGithub  == << "h","t","t","p",":","/","/","g","i","t","h","u","b",".","c","o","m","/" >>
DotGit      == << ".", "g", "i", "t" >>

\* what may follow the repo group: (?:\.git)?/?$
UrlTails == { << >>, DotGit, << "/" >>, DotGit \o << "/" >> }

UrlHostMatches(s) == StartsWith(s, HttpsGithub) \/ StartsWith(s, HttpGithub)

\* the text after "https?://github\.com/"
UrlAfterHost(s) ==
    IF StartsWith(s, HttpsGithub) THEN Drop(s, Len(HttpsGithub))
    ELSE Drop(s, Len(HttpGithub))

\* ([^/]+)/ : the owner group is everything before the first slash
OwnerEnds(rest) ==
    { i \in 1..Len(rest) - 1 :
        /\ rest[i + 1] = "/"
        /\ \A k \in 1..i : rest[k] # "/" }

\* ends j of the repo group ([^/\s]+?) that let the rest of the pattern match
RepoEnds(rest, i) ==
    { j \in i + 2..Len(rest) :
        /\ \A k \in i + 2..j : rest[k] \notin ({ "/" } \cup Whitespace)
        /\ Drop(rest, j) \in UrlTails }

Min(S) == CHOOSE x \in S : \A y \in S : x <= y
Max(S) == CHOOSE x \in S : \A y \in S : x >= y

\* the match of the pattern, the repo group taken lazily or greedily:
\* <<owner, repo>>, or << >> when re.match fails (the ValueError)
MatchRepoUrl(repo_url, lazy) ==
    LET s == Strip(repo_url) IN
    IF ~UrlHostMatches(s) THEN << >>
    ELSE LET rest == UrlAfterHost(s) IN
         IF OwnerEnds(rest) = {} THEN << >>
         ELSE LET i == Min(OwnerEnds(rest)) IN
              IF RepoEnds(rest, i) = {} THEN << >>
              ELSE << SubSeq(rest, 1, i),
                      SubSeq(rest, i + 2, IF lazy THEN Min(RepoEnds(rest, i))
                                                   ELSE Max(RepoEnds(rest, i))) >>

ExtractRepoInfoGreedy(repo_url) == MatchRepoUrl(repo_url, FALSE)

\* the repo group is lazy: the shortest repo that lets the tail match
ExtractRepoInfo(repo_url) == MatchRepoUrl(repo_url, TRUE)

-----------------------------------------------------------------------------
(* Messages: an f-string is modelled by its template and its arguments     *)

Msg(t, x, y, file, files) == [ t |-> t, x |-> x, y |-> y, file |-> file, files |-> files ]
Text(t) == Msg(t, << >>, << >>, << >>, << >>)

\* sorted(list(set(xs))): the list is a function of the set of its elements;
\* the order of the elements stands for the lexicographic order of the strings
RECURSIVE SortedList(_)
SortedList(S) ==
    IF S = {} THEN << >>
    ELSE LET x == CHOOSE e \in S : TRUE IN << x >> \o SortedList(S \ { x })

\* dict.get(key, default) on a record
Get(rec, key, default) == IF key \in DOMAIN rec THEN rec[key] ELSE default

-----------------------------------------------------------------------------
(* Configuration and analyzers (config.py, AnalysisOrchestrator.__init__)  *)

\* the keys of ENABLED_ANALYZERS, in the order of the dict
AnalyzerOrder == << "terraform", "docker", "dependency" >>
AnalyzerNames == Range(AnalyzerOrder)

\* self.enabled_analyzer_names (and the key order of self.analyzers)
EnabledAnalyzerNames(en) == SelectSeq(AnalyzerOrder, LAMBDA n : n \in en)

analysis_key(name) ==
    CASE name = "terraform"  -> "instance_types"
      [] name = "docker"     -> "docker_analysis"
      [] name = "dependency" -> "dependencies"

\* str.lower() on a token
Lower(tok) ==
    CASE tok = "Dockerfile" -> "dockerfile"
      [] tok = "README"     -> "readme"
      [] tok = "FROM"       -> "from"
      [] tok = "RUN"        -> "run"
      [] tok = "COPY"       -> "copy"
      [] tok = "ARG"        -> "arg"
      [] tok = "AS"         -> "as"
      [] tok = "TARGETARCH" -> "targetarch"
      [] tok = "T3"         -> "t3"
      [] tok = "Large"      -> "large"
      [] tok = "ARM64"      -> "arm64"
      [] tok = "Linux"      -> "linux"
      [] tok = "NumPy"      -> "numpy"
      [] OTHER              -> tok

LowerSeq(s) == [ i \in 1..Len(s) |-> Lower(s[i]) ]

\* tokens that begin with a dot
DotTokens == { ".tf", ".txt", ".json", ".md", ".prod", ".dockerfile", "." }

\* re.search(pattern, path, re.IGNORECASE) for some pattern of the analyzer
\*   terraform:  \.tf$
\*   docker:     dockerfile(\..*)?$  |  \.dockerfile$
\*   dependency: requirements\.txt$  |  package\.json$
MatchesPatterns(name, path) ==
    LET p == LowerSeq(path) IN
    CASE name = "terraform" ->
            Len(p) >= 1 /\ p[Len(p)] = ".tf"
      [] name = "docker" ->
            \/ \E i \in 1..Len(p) :
                  /\ p[i] \in { "dockerfile", ".dockerfile" }
                  /\ (i = Len(p) \/ p[i + 1] \in DotTokens)
            \/ Len(p) >= 1 /\ p[Len(p)] = ".dockerfile"
      [] name = "dependency" ->
            \/ EndsWith(p, << "requirements", ".txt" >>)
            \/ EndsWith(p, << "package", ".json" >>)

\* the worklists without the test item.get("type") == "blob"
IdentifyIgnoringType(items, names) ==
    [ n \in Range(names) |->
        LET hits == SelectSeq(items, LAMBDA item : MatchesPatterns(n, item.path))
        IN  [ i \in 1..Len(hits) |-> hits[i].path ] ]

\* step 3 of analyze_repository: the worklist of every enabled analyzer
RECURSIVE IdentifyRelevantFiles(_, _)
IdentifyRelevantFiles(items, names) ==
    IF items = << >> THEN [ n \in Range(names) |-> << >> ]
    ELSE LET before == IdentifyRelevantFiles(SubSeq(items, 1, Len(items) - 1), names)
             item   == items[Len(items)]
         IN  [ n \in Range(names) |->
                 IF item.type = "blob" /\ MatchesPatterns(n, item.path)
                 THEN Append(before[n], item.path)
                 ELSE before[n] ]

\* the (analyzer, path) pairs in the order of the loops of step 4
RECURSIVE Worklist(_, _)
Worklist(files, names) ==
    IF names = << >> THEN << >>
    ELSE [ i \in 1..Len(files[Head(names)]) |->
             [ analyzer |-> Head(names), path |-> files[Head(names)][i] ] ]
         \o Worklist(files, Tail(names))

-----------------------------------------------------------------------------
(* Exceptions and the two result shapes of analyze_repository              *)

Exc(type, msg) == [ type |-> type, msg |-> msg ]
NoException == Exc("None", "")

\* classes caught by the first except clause of analyze_repository:
\* ValueError, RepositoryNotFoundException, BranchNotFoundException,
\* GithubApiException and its subclasses
KnownErrors == { "ValueError", "RepositoryNotFoundException",
                 "BranchNotFoundException", "GithubApiException",
                 "FileContentDecodeException" }

repo_identifier(o, r) == o \o << "/" >> \o r

\* every exception handled by the generic except clause
ErrorResultAlwaysUnexpected(url, o, r, e) ==
    [ repository |-> IF o # << >> THEN repo_identifier(o, r) ELSE url,
      github_url |-> url,
      error      |-> << "An unexpected error occurred: ", e.msg >> ]

\* the two except clauses at the end of analyze_repository
ErrorResult(url, o, r, e) ==
    [ repository |-> IF o # << >> THEN repo_identifier(o, r) ELSE url,
      github_url |-> url,
      error      |-> IF e.type \in KnownErrors
                     THEN << e.msg >>
                     ELSE << "An unexpected error occurred: ", e.msg >> ]

Pending == [ pending |-> TRUE ]

Req(op, path) == [ op |-> op, path |-> path ]

-----------------------------------------------------------------------------
(* TerraformAnalyzer (analyzers/terraform_analyzer.py)                     *)
(* A .tf file is modelled by the values of its instance_type assignments,  *)
(* in order, and the set of architecture words its lower-cased text holds. *)
(* An instance type is a sequence of tokens: family, ".", size.            *)

arch_indicators == << "architecture", "amd64", "x86_64", "arm64", "graviton" >>

\* analyze(): its is the order in which list(set(matches)) lists the types
TerraformAnalyze(content, its) ==
    [ instance_types   |-> its,
      other_indicators |-> SelectSeq(arch_indicators, LAMBDA ind : ind \in content.words) ]

arm_families == { "a1", "t4g", "m6g", "m7g", "c6g", "c7g", "r6g", "r7g",
                  "x2gd", "im4gn", "gr6" }

x86_only_families == { "mac", "f1", "p2", "p3", "g3", "g4", "g5", "inf",
                       "dl1", "vt1", "trn1" }

\* instance_mapping: x86 family -> Graviton family (both without the dot)
instance_mapping ==
    [ fam \in { "t3", "t3a", "t2", "m6i", "m6a", "m5", "m5a", "m5n", "m5zn", "m4",
                "c6i", "c6a", "c5", "c5a", "c5n", "c4", "r6i", "r6a", "r5", "r5a",
                "r5b", "r5n", "r4", "x1e", "x1", "z1d", "i3", "i3en", "d2", "d3",
                "d3en" } |->
        CASE fam \in { "t3", "t3a", "t2" }                 -> "t4g"
          [] fam \in { "m6i", "m6a" }                      -> "m7g"
          [] fam \in { "m5", "m5a", "m5zn", "m4", "z1d" }  -> "m6g"
          [] fam = "m5n"                                   -> "m6gn"
          [] fam \in { "c6i", "c6a" }                      -> "c7g"
          [] fam \in { "c5", "c5a", "c4" }                 -> "c6g"
          [] fam = "c5n"                                   -> "c6gn"
          [] fam \in { "r6i", "r6a" }                      -> "r7g"
          [] fam \in { "r5", "r5a", "r5b", "r4" }          -> "r6g"
          [] fam = "r5n"                                   -> "r6gn"
          [] fam \in { "x1e", "x1" }                       -> "x2gd"
          [] fam = "i3"                                    -> "im4gn"
          [] fam \in { "i3en", "d2", "d3", "d3en" }        -> "i4g" ]

\* any(lower.startswith(family + ".") or lower == family for family in families)
InFamilies(lower, families) ==
    \E fam \in families : StartsWith(lower, << fam, "." >>) \/ lower = << fam >>

\* the rule table applied to the text as written, without lower-casing
IsInstanceTypeArmCompatibleAsWritten(instance_type) ==
    LET lower == instance_type IN
    IF InFamilies(lower, arm_families)
    THEN [ compatible |-> "True", already_arm |-> "True" ]
    ELSE IF InFamilies(lower, x86_only_families)
    THEN [ compatible |-> "False",
           reason |-> "Instance family has no direct ARM equivalent or is specialized (e.g., GPU, FPGA, Trainium)." ]
    ELSE IF Len(lower) >= 2 /\ lower[2] = "." /\ lower[1] \in DOMAIN instance_mapping
    THEN [ compatible  |-> "True",
           already_arm |-> "False",
           suggestion  |-> << instance_mapping[lower[1]], "." >> \o Drop(instance_type, 2),
           current     |-> instance_type ]
    ELSE [ compatible |-> "unknown",
           current    |-> instance_type,
           reason     |-> "Instance type family not explicitly mapped or recognized. Requires manual verification." ]

_is_instance_type_arm_compatible(instance_type) ==
    LET lower == LowerSeq(instance_type) IN
    IF InFamilies(lower, arm_families)
    THEN [ compatible |-> "True", already_arm |-> "True" ]
    ELSE IF InFamilies(lower, x86_only_families)
    THEN [ compatible |-> "False",
           reason |-> "Instance family has no direct ARM equivalent or is specialized (e.g., GPU, FPGA, Trainium)." ]
    ELSE IF Len(lower) >= 2 /\ lower[2] = "." /\ lower[1] \in DOMAIN instance_mapping
    THEN [ compatible  |-> "True",
           already_arm |-> "False",
           suggestion  |-> << instance_mapping[lower[1]], "." >> \o Drop(instance_type, 2),
           current     |-> instance_type ]
    ELSE [ compatible |-> "unknown",
           current    |-> instance_type,
           reason     |-> "Instance type family not explicitly mapped or recognized. Requires manual verification." ]

\* the instance types the aggregator reads from one per-file output:
\* output.get("analysis", {}).get("instance_types", [])
InstanceTypesInFile(output) ==
    IF "analysis" \in DOMAIN output
    THEN Get(output.analysis, "instance_types", << >>)
    ELSE << >>

\* the (file, instance_type) pairs in the order the two loops visit them
RECURSIVE TerraformOccurrences(_)
TerraformOccurrences(outputs) ==
    IF outputs = << >> THEN << >>
    ELSE LET output == Head(outputs)
             its    == InstanceTypesInFile(output)
         IN  [ i \in 1..Len(its) |->
                 [ file |-> Get(output, "file", << "unknown_file" >>), it |-> its[i] ] ]
             \o TerraformOccurrences(Tail(outputs))

\* "if instance_type not in processed_instance_types": first occurrence only
FirstOccurrences(occ) ==
    SelectSeq([ i \in 1..Len(occ) |-> [ occ[i] EXCEPT !.it = << i, occ[i].it >> ] ],
              LAMBDA o : \A k \in 1..(o.it[1] - 1) : occ[k].it # o.it[2])

TerraformItem(o) ==
    LET it == o.it[2]
        c  == _is_instance_type_arm_compatible(it)
    IN  [ c |-> c, file |-> o.file, instance_type |-> it ]

TerraformReason(e) ==
    IF Get(e.c, "already_arm", "None") = "True"
    THEN Msg("Instance type is already ARM-based and fully compatible.", e.instance_type, << >>, << >>, << >>)
    ELSE IF e.c.compatible = "True" /\ Get(e.c, "suggestion", << >>) # << >>
    THEN Msg("Instance type can be replaced with ARM equivalent", e.instance_type, e.c.suggestion, e.file, << >>)
    ELSE IF e.c.compatible = "False"
    THEN Msg("Instance type has no direct ARM equivalent or is incompatible", e.instance_type, << e.c.reason >>, e.file, << >>)
    ELSE Msg("Instance type requires manual verification for ARM compatibility.", e.instance_type, << >>, e.file, << >>)

\* the recommendation of one item, as a set (already-ARM types get none)
TerraformRecommendation(e) ==
    IF Get(e.c, "already_arm", "None") = "True" THEN {}
    ELSE IF e.c.compatible = "True" /\ Get(e.c, "suggestion", << >>) # << >>
    THEN { Msg("Replace x with y in file", e.instance_type, e.c.suggestion, e.file, << >>) }
    ELSE IF e.c.compatible = "False"
    THEN { Msg("Review or replace incompatible instance type x in file.", e.instance_type, << >>, e.file, << >>) }
    ELSE { Msg("Manually verify ARM compatibility for instance type x in file.", e.instance_type, << >>, e.file, << >>) }

\* aggregate_results(): one finding per unique instance type
TerraformAggregate(outputs) ==
    LET items == FirstOccurrences(TerraformOccurrences(outputs))
        es    == [ i \in 1..Len(items) |-> TerraformItem(items[i]) ]
    IN  [ results |-> [ i \in 1..Len(es) |->
                          [ compatible    |-> es[i].c.compatible,
                            detail        |-> es[i].c,
                            file          |-> es[i].file,
                            instance_type |-> es[i].instance_type ] ],
          recommendations |-> SortedList(UNION { TerraformRecommendation(es[i]) : i \in 1..Len(es) }),
          reasoning       |-> [ i \in 1..Len(es) |-> TerraformReason(es[i]) ] ]

-----------------------------------------------------------------------------
(* DockerAnalyzer.analyze (analyzers/docker_analyzer.py)                   *)
(* A container file is a sequence of instruction lines (continuations      *)
(* already joined, comments and blank lines left out); a line is a         *)
(* sequence of whitespace-separated words; a word is a sequence of tokens, *)
(* where a token is a maximal run of word characters or one piece of       *)
(* punctuation ("--platform" and "--add-architecture" are single tokens).  *)

ARM64_ARCHS == { "arm64", "aarch64" }
X86_ARCHS   == { "amd64", "x86_64" }

\* tokens of the model's vocabulary that contain amd64 or x86_64 as a substring
X86Substring == { "amd64", "x86_64", "app_amd64" }

\* the line as one sequence of tokens, words separated by " "
RECURSIVE FlatLine(_)
FlatLine(line) ==
    IF line = << >> THEN << >>
    ELSE IF Len(line) = 1 THEN Head(line)
    ELSE Head(line) \o << " " >> \o FlatLine(Tail(line))

\* [\w.:/@-]+ : the tokens an image reference cannot hold
NotImageTokens == { "=", "$", "{", "}", " " }
IsImageWord(w) == w # << >> /\ \A i \in 1..Len(w) : w[i] \notin NotImageTokens

\* --platform=(\S+)
IsPlatformWord(w) == Len(w) >= 3 /\ w[1] = "--platform" /\ w[2] = "="

\* from_pattern: ^\s*FROM\s+(?:--platform=(\S+)\s+)?([\w.:/@-]+)(?:\s+AS\s+\S+)?\s*$
\* the base-image records of one line (none or one)
FromMatch(line) ==
    IF Len(line) < 2 \/ LowerSeq(line[1]) # << "from" >> THEN << >>
    ELSE LET hasPlat == IsPlatformWord(line[2]) /\ Len(line) >= 3
             k       == IF hasPlat THEN 3 ELSE 2
             tailOk  == \/ Len(line) = k
                        \/ Len(line) = k + 2 /\ LowerSeq(line[k + 1]) = << "as" >>
         IN  IF IsImageWord(line[k]) /\ tailOk /\ line[k][1] # "$"
             THEN << [ name          |-> line[k],
                       platform_used |-> IF hasPlat THEN Drop(line[2], 2) ELSE << >>,
                       line          |-> line ] >>
             ELSE << >>

RECURSIVE BaseImagesInfo(_)
BaseImagesInfo(lines) ==
    IF lines = << >> THEN << >>
    ELSE FromMatch(Head(lines)) \o BaseImagesInfo(Tail(lines))

\* arch_keywords, each searched in line_lower: the alphanumeric ones between
\* word boundaries, the others as plain substrings
arch_keywords == { "amd64", "x86_64", "arm64", "aarch64", "graviton",
                   "--platform", "TARGETARCH", "TARGETPLATFORM" }

\* command_pattern: ^\s*(FROM|RUN|ARG|ENV|COPY|ADD)\s+
IsCommandLine(line) ==
    /\ Len(line) >= 2
    /\ LowerSeq(line[1]) \in { << "from" >>, << "run" >>, << "arg" >>,
                               << "env" >>, << "copy" >>, << "add" >> }

KeywordFound(line) ==
    /\ IsCommandLine(line)
    /\ \E tok \in Range(LowerSeq(FlatLine(line))) : tok \in arch_keywords

\* a file name ending: \.(deb|rpm|tar\.gz|zip|bin) starting at token k
ArchiveExtAt(flat, k) ==
    /\ k + 1 <= Len(flat)
    /\ flat[k] = "."
    /\ \/ flat[k + 1] \in { "deb", "rpm", "zip", "bin" }
       \/ /\ k + 3 <= Len(flat)
          /\ flat[k + 1] = "tar" /\ flat[k + 2] = "." /\ flat[k + 3] = "gz"

\* arch_patterns, searched in the line (re.IGNORECASE)
ArchPatternFound(line) ==
    LET flat == LowerSeq(FlatLine(line))
        n    == Len(flat)
    IN  \/ \E i \in 1..n - 4 :          \* dpkg --add-architecture\s+(amd64|x86_64)
              /\ flat[i] = "dpkg" /\ flat[i + 1] = " "
              /\ flat[i + 2] = "--add-architecture" /\ flat[i + 3] = " "
              /\ flat[i + 4] \in X86_ARCHS
        \/ \E i, s, j, k \in 1..n :     \* (wget|curl)\s+.*\/(.*(amd64|x86_64).*\.(deb|...))
              /\ i + 1 < s /\ s < j /\ j < k
              /\ flat[i] \in { "wget", "curl" } /\ flat[i + 1] = " "
              /\ flat[s] = "/" /\ flat[j] \in X86Substring
              /\ ArchiveExtAt(flat, k)
        \/ \E i, k \in 1..n :           \* (COPY|ADD)\s+.*\.(so|a)(\s+|$)
              /\ i + 1 < k /\ k + 1 <= n
              /\ flat[i] \in { "copy", "add" } /\ flat[i + 1] = " "
              /\ flat[k] = "." /\ flat[k + 1] \in { "so", "a" }
              /\ (k + 1 = n \/ flat[k + 2] = " ")
        \/ \E i, j \in 1..n :           \* (COPY|ADD)\s+.*(amd64|x86_64)
              /\ i + 1 < j
              /\ flat[i] \in { "copy", "add" } /\ flat[i + 1] = " "
              /\ flat[j] \in X86Substring

\* sorted(list(arch_lines_found))
ArchSpecificLines(lines) ==
    SortedList({ l \in Range(lines) : KeywordFound(l) \/ ArchPatternFound(l) })

\* analyze(): the per-file output
DockerAnalyze(content, file_path) ==
    [ file                |-> file_path,
      base_images_info    |-> BaseImagesInfo(content),
      arch_specific_lines |-> ArchSpecificLines(content) ]

-----------------------------------------------------------------------------
(* DockerAnalyzer._check_image_compatibility_via_manifest                  *)
(* The registry's answer to the manifest request is a record:              *)
(*   kind "list":     a manifest list / OCI index with platform entries    *)
(*   kind "manifest": a single manifest (config digest, config blob)       *)
(*   kind "other":    an unsupported Content-Type                          *)
(*   kind "http":     raise_for_status() raises HTTPError with a status    *)
(*   kind "network":  the request raises another RequestException         *)
(*   kind "parse":    the body is not JSON                                  *)

Scratch == << "scratch" >>

\* the cache key / dict key: an implicit ":latest"
NormalizeImageKey(name) ==
    IF ":" \notin Range(name) /\ "@" \notin Range(name) /\ name # Scratch
    THEN name \o << ":", "latest" >>
    ELSE name

Platform(os, arch) == << os, "/", arch >>

ManifestResultRec(compatible, reason, archs, checked_type) ==
    [ compatible |-> compatible, reason |-> reason,
      architectures |-> SortedList(archs), checked_type |-> checked_type ]

ScratchResult ==
    ManifestResultRec("True", "Base image is 'scratch', which is inherently multi-arch.",
                      { << "multiple" >> }, "special")

\* os/architecture pairs collected from the entries of a manifest list
ListArchitectures(entries) ==
    { Platform(Lower(e.os), Lower(e.arch)) :
        e \in { x \in Range(entries) : x.arch # "" /\ x.os # "" } }

\* a test of the architecture alone
ListHasArm64AnyOs(entries) ==
    \E e \in Range(entries) : Lower(e.arch) \in ARM64_ARCHS

ListHasArm64(entries) ==
    \E e \in Range(entries) : Lower(e.arch) \in ARM64_ARCHS /\ Lower(e.os) = "linux"

\* what a single manifest yields: config blob first, top-level field as fallback
ManifestArchitectures(ans) ==
    IF ans.config_digest /\ ans.config_ok
    THEN IF ans.arch # "" /\ ans.os # "" THEN { Platform(ans.os, ans.arch) } ELSE {}
    ELSE IF ans.top_arch # "" THEN { Platform("unknown", ans.top_arch) } ELSE {}

ManifestHasArm64(ans) ==
    ans.config_digest /\ ans.config_ok /\ ans.arch \in ARM64_ARCHS /\ ans.os = "linux"

\* reasons for the four statuses named in the handler only
HttpErrorReasonKnownOnly(status) ==
    CASE status = 401 -> "Authentication error accessing manifest. Check credentials or image visibility."
      [] status = 403 -> "Permission denied accessing manifest. Check repository permissions."
      [] status = 404 -> "Image manifest not found (404). Check image name, tag, and registry."
      [] status = 429 -> "API rate limit hit checking manifest. Try again later."
      [] OTHER        -> ""

HttpErrorReason(status) ==
    CASE status = 401 -> "Authentication error accessing manifest. Check credentials or image visibility."
      [] status = 403 -> "Permission denied accessing manifest. Check repository permissions."
      [] status = 404 -> "Image manifest not found (404). Check image name, tag, and registry."
      [] status = 429 -> "API rate limit hit checking manifest. Try again later."
      [] OTHER        -> "HTTP error checking manifest"

\* the final decision on a manifest that was fetched and parsed
DecideCompatibility(is_arm64_compatible, archs, reason, checked_type) ==
    IF is_arm64_compatible
    THEN ManifestResultRec("True", "Image manifest supports linux/arm64.", archs, checked_type)
    ELSE IF archs # {}
    THEN ManifestResultRec("False", "Image manifest does not list linux/arm64 support. Found: ", archs, checked_type)
    ELSE ManifestResultRec("unknown",
                           IF reason = "Check not performed yet."
                           THEN "Could not determine architecture support from manifest."
                           ELSE reason,
                           archs, checked_type)

\* the result computed from the registry's answer (no cache hit, not scratch)
InspectManifest(ans) ==
    CASE ans.kind = "list" ->
            DecideCompatibility(ListHasArm64(ans.entries), ListArchitectures(ans.entries),
                                IF ans.entries = << >> THEN "Manifest list/index is empty."
                                ELSE "Check not performed yet.",
                                "manifest_list/index")
      [] ans.kind = "manifest" ->
            DecideCompatibility(ManifestHasArm64(ans), ManifestArchitectures(ans),
                                IF ManifestArchitectures(ans) = {}
                                THEN "Single manifest architecture could not be determined (missing config digest and architecture field)."
                                ELSE "Check not performed yet.",
                                "manifest")
      [] ans.kind = "other" ->
            DecideCompatibility(FALSE, {}, "Unsupported manifest Content-Type", "None")
      [] ans.kind = "http" ->
            ManifestResultRec("unknown", HttpErrorReason(ans.status), {}, "error")
      [] ans.kind = "network" ->
            ManifestResultRec("unknown", "Network error checking manifest", {}, "error")
      \* response.json() raises: a RequestException with a recent requests
      \* library (parse), another exception with an older one (parse_legacy)
      [] ans.kind = "parse" ->
            ManifestResultRec("unknown", "Network error checking manifest", {}, "error")
      [] ans.kind = "parse_legacy" ->
            ManifestResultRec("unknown", "Unexpected error checking manifest", {}, "error")

\* an inspection that marks the results it serves from the cache
CheckImageTaggingHits(image, cache, ans) ==
    LET cache_key == NormalizeImageKey(image) IN
    IF cache_key \in DOMAIN cache
    THEN [ result |-> [ cache[cache_key] EXCEPT !.checked_type = "cache" ],
           cache |-> cache, requests |-> << >> ]
    ELSE IF cache_key = Scratch \/ cache_key = Scratch \o << ":", "latest" >>
    THEN [ result   |-> ScratchResult,
           cache    |-> [ k \in DOMAIN cache \cup { cache_key } |->
                            IF k = cache_key THEN ScratchResult ELSE cache[k] ],
           requests |-> << >> ]
    ELSE LET r == InspectManifest(ans) IN
         [ result   |-> r,
           cache    |-> [ k \in DOMAIN cache \cup { cache_key } |->
                            IF k = cache_key THEN r ELSE cache[k] ],
           requests |-> << [ op |-> "token", image |-> cache_key ],
                           [ op |-> "manifest", image |-> cache_key ] >>
                        \o IF ans.kind = "manifest" /\ ans.config_digest
                           THEN << [ op |-> "blob", image |-> cache_key ] >>
                           ELSE << >> ]

\* an inspection that asks the registry about every image that is not cached
CheckImageNoScratch(image, cache, ans) ==
    LET cache_key == NormalizeImageKey(image) IN
    IF cache_key \in DOMAIN cache
    THEN [ result |-> cache[cache_key], cache |-> cache, requests |-> << >> ]
    ELSE LET r == InspectManifest(ans) IN
         [ result   |-> r,
           cache    |-> [ k \in DOMAIN cache \cup { cache_key } |->
                            IF k = cache_key THEN r ELSE cache[k] ],
           requests |-> << [ op |-> "token", image |-> cache_key ],
                           [ op |-> "manifest", image |-> cache_key ] >> ]

\* _check_image_compatibility_via_manifest(image) with the cache `cache`:
\* the result, the cache afterwards and the registry requests issued
CheckImage(image, cache, ans) ==
    LET cache_key == NormalizeImageKey(image) IN
    IF cache_key \in DOMAIN cache
    THEN [ result |-> cache[cache_key], cache |-> cache, requests |-> << >> ]
    ELSE IF cache_key = Scratch \/ cache_key = Scratch \o << ":", "latest" >>
    THEN [ result   |-> ScratchResult,
           cache    |-> [ k \in DOMAIN cache \cup { cache_key } |->
                            IF k = cache_key THEN ScratchResult ELSE cache[k] ],
           requests |-> << >> ]
    ELSE LET r == InspectManifest(ans) IN
         [ result   |-> r,
           cache    |-> [ k \in DOMAIN cache \cup { cache_key } |->
                            IF k = cache_key THEN r ELSE cache[k] ],
           \* _get_docker_auth_token asks for a token of the repository first (a
           \* token cached for another tag of the repository would save the request)
           requests |-> << [ op |-> "token", image |-> cache_key ],
                           [ op |-> "manifest", image |-> cache_key ] >>
                        \o IF ans.kind = "manifest" /\ ans.config_digest
                           THEN << [ op |-> "blob", image |-> cache_key ] >>
                           ELSE << >> ]

-----------------------------------------------------------------------------
(* DockerAnalyzer.aggregate_results                                        *)

\* Pass 1: images_data, keyed by the normalized image name
ImageOccurrencesOf(outputs) ==
    UNION { { [ key      |-> NormalizeImageKey(info.name),
                file     |-> Get(outputs[i], "file", << "unknown_file" >>),
                platform |-> LowerSeq(info.platform_used) ] :
              info \in Range(Get(outputs[i], "base_images_info", << >>)) } :
            i \in 1..Len(outputs) }

ImageKeys(outputs) == { o.key : o \in ImageOccurrencesOf(outputs) }

ImageFiles(outputs, key) ==
    SortedList({ o.file : o \in { x \in ImageOccurrencesOf(outputs) : x.key = key } })

PlatformsUsed(outputs, key) ==
    { o.platform : o \in { x \in ImageOccurrencesOf(outputs) :
                             x.key = key /\ x.platform # << >> } }

\* Pass 1: all_arch_specific_lines, line -> files that hold it
ArchLines(outputs) ==
    UNION { Range(Get(outputs[i], "arch_specific_lines", << >>)) : i \in 1..Len(outputs) }

RECURSIVE ArchLineFiles(_, _)
ArchLineFiles(outputs, line) ==
    IF outputs = << >> THEN << >>
    ELSE LET rest == ArchLineFiles(SubSeq(outputs, 1, Len(outputs) - 1), line)
             o    == outputs[Len(outputs)]
             f    == Get(o, "file", << "unknown_file" >>)
         IN  IF line \in Range(Get(o, "arch_specific_lines", << >>)) /\ f \notin Range(rest)
             THEN Append(rest, f) ELSE rest

LinuxAmd64 == << "linux", "/", "amd64" >>

\* Pass 3, one image: the assessment and what it adds
AssessImage(key, files, platforms, manifest_info) ==
    LET comp == manifest_info.compatible
        flag == LinuxAmd64 \in platforms
    IN  [ assessment |->
            [ image                     |-> key,
              files                     |-> files,
              platforms_explicitly_used |-> SortedList(platforms),
              arm64_support_native      |-> comp,
              native_support_reason     |-> manifest_info.reason,
              native_architectures      |-> manifest_info.architectures,
              migration_potential       |->
                  CASE comp = "True"  -> "High"
                    [] comp = "False" -> "Not Possible / Very Difficult"
                    [] OTHER          -> "Unknown / Needs Verification",
              required_actions          |->
                  IF comp = "True" /\ flag
                  THEN << "Remove or change --platform=linux/amd64 flag in FROM lines." >>
                  ELSE << >> ],
          reasoning |->
            CASE comp = "True" ->
                    << Msg("Base image natively supports ARM64", key, << >>, << >>, files),
                       IF flag
                       THEN Text("Note: It was used with --platform=linux/amd64 which needs removal/change.")
                       ELSE Text("No explicit --platform=linux/amd64 flag was detected for this image.") >>
              [] comp = "False" ->
                    << Msg("Base image does *not* natively support ARM64. Reason:", key,
                           << manifest_info.reason >> \o Flatten(manifest_info.architectures),
                           << >>, files) >>
              [] OTHER ->
                    << Msg("Native ARM64 support for base image is unknown. Reason:", key,
                           << manifest_info.reason >>, << >>, files) >>,
          recommendations |->
            CASE comp = "True" ->
                    IF flag
                    THEN { Msg("Modify Dockerfile(s): remove/change explicit --platform=linux/amd64", key, << >>, << >>, files) }
                    ELSE {}
              [] comp = "False" ->
                    { Msg("Major Blocker: Base image is not ARM64 compatible. Replace it with a multi-arch or ARM64 variant", key, << >>, << >>, files) }
              [] OTHER ->
                    { Msg("Action Required: Manually verify ARM64 support", key, << >>, << >>, files) } ]

\* overall_arm_potential after one image, an unknown image setting Medium
PotentialAfterImageResets(potential, comp) ==
    CASE comp = "True"  -> potential
      [] comp = "False" -> "Low"
      [] OTHER          -> "Medium"

\* overall_arm_potential after one image
PotentialAfterImage(potential, comp) ==
    CASE comp = "True"  -> potential
      [] comp = "False" -> "Low"
      [] OTHER          -> IF potential = "High" THEN "Medium" ELSE potential

RECURSIVE PotentialAfterImages(_, _)
PotentialAfterImages(potential, comps) ==
    IF comps = << >> THEN potential
    ELSE PotentialAfterImages(PotentialAfterImage(potential, Head(comps)), Tail(comps))

\* the branch of the if/elif chain that classifies an architecture-specific line
LineClass(line) ==
    LET orig == FlatLine(line)
        flat == LowerSeq(orig)
        n    == Len(flat)
    IN  IF \/ \E i, j, k \in 1..n :     \* (wget|curl).*(amd64|x86_64).*\.(deb|rpm|bin|zip|tar\.gz)
                 /\ i < j /\ j < k
                 /\ flat[i] \in { "wget", "curl" } /\ flat[j] \in X86Substring
                 /\ ArchiveExtAt(flat, k)
           \/ \E i \in 1..n - 4 :       \* dpkg --add-architecture (amd64|x86_64)
                 /\ flat[i] = "dpkg" /\ flat[i + 1] = " "
                 /\ flat[i + 2] = "--add-architecture" /\ flat[i + 3] = " "
                 /\ flat[i + 4] \in X86_ARCHS
           \/ \E i, k \in 1..n :        \* (apt-get|yum|dnf|apk)\s+install.*:(amd64|x86_64)
                 /\ i + 2 < k /\ k + 1 <= n
                 /\ flat[i] \in { "apt-get", "yum", "dnf", "apk" } /\ flat[i + 1] = " "
                 /\ flat[i + 2] = "install"
                 /\ flat[k] = ":" /\ flat[k + 1] \in X86_ARCHS
        THEN "blocker"
        ELSE IF \E i, k \in 1..n :      \* (copy|add).*\.(so|a)\s+
                 /\ i < k /\ k + 2 <= n
                 /\ flat[i] \in { "copy", "add", "--add-architecture" }
                 /\ flat[k] = "." /\ flat[k + 1] \in { "so", "a" } /\ flat[k + 2] = " "
        THEN "native_library"
        ELSE IF \E i, j \in 1..n :      \* (copy|add).*(amd64|x86_64)
                 /\ i < j
                 /\ flat[i] \in { "copy", "add", "--add-architecture" }
                 /\ flat[j] \in X86Substring
        THEN "x86_named_file"
        ELSE IF /\ \E i \in 1..n - 4 :  \* "--platform=linux/amd64" in line_lower
                     SubSeq(flat, i, i + 4) = << "--platform", "=" >> \o LinuxAmd64
                /\ flat[1] # "from"
        THEN "platform_outside_from"
        ELSE IF \E tok \in Range(orig) : tok \in { "TARGETARCH", "TARGETPLATFORM" }
        THEN "build_args"
        ELSE IF \E tok \in Range(flat) : tok \in X86_ARCHS   \* \b(amd64|x86_64)\b
        THEN "x86_keyword"
        ELSE "none"

ReviewClasses == { "native_library", "x86_named_file", "platform_outside_from", "x86_keyword" }

LineReasoning(line, files) ==
    LET c == LineClass(line) IN
    IF c = "none" THEN << >>
    ELSE << Msg(CASE c = "blocker" -> "Potential Blocker: Line explicitly fetches or installs x86-specific binary/package"
                  [] c = "native_library" -> "Review Needed: Line copies native library (.so, .a)"
                  [] c = "x86_named_file" -> "Review Needed: Line copies file potentially named for x86"
                  [] c = "platform_outside_from" -> "Review Needed: Line uses --platform flag outside FROM"
                  [] c = "build_args" -> "Info: Line uses multi-arch build arguments (TARGETARCH/TARGETPLATFORM)"
                  [] c = "x86_keyword" -> "Review Needed: Line contains x86 keyword ('amd64'/'x86_64')",
                FlatLine(line), << >>, << >>, files) >>

LineRecommendation(line, files) ==
    LET c == LineClass(line) IN
    IF c \in { "none", "build_args" } THEN {}
    ELSE { Msg(CASE c = "blocker" -> "Investigate/Modify: Replace x86-specific download/install with ARM64 equivalent or multi-arch method"
                 [] c = "native_library" -> "Verify/Modify: Ensure ARM64 compatible library is copied or built"
                 [] c = "x86_named_file" -> "Verify/Modify: Check if ARM variant needed for file copied"
                 [] c = "platform_outside_from" -> "Verify: Understand use of --platform in non-FROM line"
                 [] c = "x86_keyword" -> "Verify: Review use of x86 keyword in line",
               FlatLine(line), << >>, << >>, files) }

\* the potential after the walk over the architecture-specific lines
PotentialAfterLines(potential, lines) ==
    IF \E l \in lines : LineClass(l) = "blocker" THEN "Low"
    ELSE IF \E l \in lines : LineClass(l) \in ReviewClasses
    THEN IF potential = "High" THEN "Medium" ELSE potential
    ELSE potential

FinalSummary(potential) == Msg("Overall ARM Migration Potential:", << potential >>, << >>, << >>, << >>)

\* aggregate_results() given the manifest result of every image (Pass 2)
DockerAggregate(outputs, info) ==
    LET keys    == SortedList(ImageKeys(outputs))
        parts   == [ i \in 1..Len(keys) |->
                       AssessImage(keys[i], ImageFiles(outputs, keys[i]),
                                   PlatformsUsed(outputs, keys[i]), info[keys[i]]) ]
        lines   == SortedList(ArchLines(outputs))
        afterIm == PotentialAfterImages("High",
                       [ i \in 1..Len(keys) |-> info[keys[i]].compatible ])
        overall == PotentialAfterLines(afterIm, Range(lines))
        recs    == UNION { parts[i].recommendations : i \in 1..Len(parts) }
                   \cup UNION { LineRecommendation(lines[i], ArchLineFiles(outputs, lines[i])) :
                                i \in 1..Len(lines) }
    IN  [ results |-> [ i \in 1..Len(parts) |-> parts[i].assessment ],
          recommendations |-> << FinalSummary(overall) >> \o SortedList(recs),
          reasoning |->
              Flatten([ i \in 1..Len(parts) |-> parts[i].reasoning ])
              \o (IF lines = << >> THEN << >>
                  ELSE << Text("---"),
                          Text("Analysis of specific commands/lines across Dockerfiles:") >>
                       \o Flatten([ i \in 1..Len(lines) |->
                                      LineReasoning(lines[i], ArchLineFiles(outputs, lines[i])) ])),
          overall_potential |-> overall ]

-----------------------------------------------------------------------------
(* DependencyManager (analyzers/dependency_analyzer/manager.py)            *)
(* A dependency file is modelled by what its checker's parse_dependencies  *)
(* makes of it: a list of direct dependencies, or an exception.  What      *)
(* check_compatibility answers for a package is decided by the package     *)
(* index, outside the program: it is an input of the aggregation.          *)

\* _get_checker_and_type: file_path.lower().endswith(...)
FileType(file_path) ==
    LET p == LowerSeq(file_path) IN
    IF EndsWith(p, << "requirements", ".txt" >>) THEN "python"
    ELSE IF EndsWith(p, << "package", ".json" >>) THEN "javascript"
    ELSE "None"

\* analyze(): content.parse_ok says whether parse_dependencies returned
DependencyAnalyze(content, file_path) ==
    IF FileType(file_path) = "None"
    THEN [ parsed_deps |-> << >>, file_type |-> "None", file |-> file_path ]
    ELSE IF content.parse_ok
    THEN [ parsed_deps |-> content.deps, file_type |-> FileType(file_path), file |-> file_path ]
    ELSE [ parsed_deps |-> << >>, file_type |-> FileType(file_path), file |-> file_path,
           error |-> "parse error" ]

\* the dependencies the aggregation checks, in order, each with its file
RECURSIVE DependencyOccurrences(_)
DependencyOccurrences(outputs) ==
    IF outputs = << >> THEN << >>
    ELSE LET output == Head(outputs)
             deps   == IF Get(output, "file_type", "None") = "None"
                       THEN << >> ELSE Get(output, "parsed_deps", << >>)
         IN  [ i \in 1..Len(deps) |->
                 [ name         |-> deps[i].name,
                   version_spec |-> deps[i].version_spec,
                   file_type    |-> output.file_type,
                   file         |-> Get(output, "file", << "unknown_file" >>) ] ]
             \o DependencyOccurrences(Tail(outputs))

\* one entry of all_compatibility_results; answer "raise" is check_compatibility raising
DependencyResult(dep, answer) ==
    [ name         |-> dep.name,
      version_spec |-> dep.version_spec,
      file         |-> dep.file,
      compatible   |-> IF answer = "raise" THEN "error" ELSE answer ]

DependencyReasoning(r, file_type) ==
    IF r.compatible = "False"
    THEN << Msg("package is not compatible with ARM64", << r.name >>, << file_type >>, r.file, << >>) >>
    ELSE IF r.compatible = "partial"
    THEN << Msg("package may have ARM64 compatibility issues", << r.name >>, << file_type >>, r.file, << >>) >>
    ELSE << >>

DependencyRecommendation(r, file_type) ==
    IF r.compatible = "False"
    THEN { Msg("Replace package with an ARM64 compatible alternative", << r.name >>, << file_type >>, r.file, << >>) }
    ELSE IF r.compatible = "partial"
    THEN { Msg("Test package on ARM64 and check for compatibility issues", << r.name >>, << file_type >>, r.file, << >>) }
    ELSE {}

\* the deduplication by (name, version_spec): first result of each key
DedupeResults(rs) ==
    LET idx == SelectSeq([ i \in 1..Len(rs) |-> i ],
                         LAMBDA i : \A k \in 1..(i - 1) :
                            << rs[k].name, rs[k].version_spec >> # << rs[i].name, rs[i].version_spec >>)
    IN  [ j \in 1..Len(idx) |-> rs[idx[j]] ]

\* aggregate_results() given the answers of check_compatibility per package
DependencyAggregate(outputs, answers) ==
    LET occ == DependencyOccurrences(outputs)
        rs  == [ i \in 1..Len(occ) |-> DependencyResult(occ[i], answers[occ[i].name]) ]
    IN  [ results         |-> DedupeResults(rs),
          recommendations |-> SortedList(UNION { DependencyRecommendation(rs[i], occ[i].file_type) :
                                                 i \in 1..Len(rs) }),
          reasoning       |-> Flatten([ i \in 1..Len(rs) |->
                                          DependencyReasoning(rs[i], occ[i].file_type) ]) ]

-----------------------------------------------------------------------------
(* python_checker.py: the PyPI client, the requirement lines and the       *)
(* Wheel Tester.  A version is a tuple of numbers, a release key that is   *)
(* not a version has a negative first number.                              *)

NoVersion == << >>

\* packaging.version: the order of two versions
VersionLess(a, b) == a[1] < b[1] \/ (a[1] = b[1] /\ a[2] < b[2])

\* parse_version(v_str) returns (it raises InvalidVersion otherwise)
IsValidVersion(v) == v # NoVersion /\ v[1] >= 0

MaxVersion(S) == CHOOSE v \in S : \A w \in S : ~VersionLess(v, w)

\* a version_spec text: none, an operator with a version, or any other text
NoSpec == [ op |-> "", v |-> NoVersion, text |-> "" ]
Specifier(op, v) == [ op |-> op, v |-> v, text |-> "" ]
OtherText(t) == [ op |-> "", v |-> NoVersion, text |-> t ]

\* SpecifierSet(text) returns (it raises InvalidSpecifier otherwise)
IsValidSpecifier(spec) == spec.op \in { "<", ">=", "==" } /\ IsValidVersion(spec.v)

\* version in SpecifierSet(spec)
SpecifierContains(spec, v) ==
    CASE spec.op = "<"  -> VersionLess(v, spec.v)
      [] spec.op = ">=" -> ~VersionLess(v, spec.v)
      [] spec.op = "==" -> v = spec.v
      [] OTHER          -> FALSE

\* packaging.utils.canonicalize_name
canonicalize_name(name) ==
    CASE name = "NumPy"    -> "numpy"
      [] name = "left_pad" -> "left-pad"
      [] OTHER             -> Lower(name)

\* a reason text with the values formatted into it
Why(t, name, version, spec) == [ t |-> t, name |-> name, version |-> version, spec |-> spec ]

PypiResult(compatible, reason, checked_version, warning) ==
    [ compatible |-> compatible, reason |-> reason,
      checked_version |-> checked_version, warning |-> warning ]

PypiUnknown(reason) == PypiResult("unknown", reason, NoVersion, "None")

\* the parts of a lower-cased wheel tag that the substring tests look for
TagParts(tag) ==
    CASE tag = "manylinux_aarch64" -> { "linux", "aarch64", "any" }
      [] tag = "macosx_arm64"      -> { "macosx", "arm64" }
      [] tag = "macosx_universal2" -> { "macosx", "universal2" }
      [] tag = "manylinux_x86_64"  -> { "linux", "x86_64", "any" }
      [] tag = "win_amd64"         -> { "win", "amd64", "win_amd64" }
      [] tag = "win32"             -> { "win", "win32" }
      [] tag = "any"               -> { "any" }
      [] tag = "linux_riscv64"     -> { "linux" }
      [] OTHER                     -> {}

\* s in wheel_tags
InTags(tags, s) == \E i \in 1..Len(tags) : s \in TagParts(Lower(tags[i]))

File(packagetype, tags, yanked) == [ packagetype |-> packagetype, tags |-> tags, yanked |-> yanked ]

\* the wheel has the three tags the file name pattern asks for
IsTaggedWheel(f) == f.packagetype = "bdist_wheel" /\ f.tags # << >>

IsArmWheel(f) == IsTaggedWheel(f) /\ (InTags(f.tags, "aarch64") \/ InTags(f.tags, "arm64"))

IsUniversalWheel(f) ==
    /\ IsTaggedWheel(f) /\ ~IsArmWheel(f)
    /\ \/ InTags(f.tags, "universal2") /\ InTags(f.tags, "macosx")
       \/ /\ InTags(f.tags, "any")
          /\ \A a \in { "win", "linux", "macosx", "x86_64", "amd64" } : ~InTags(f.tags, a)

IsOtherArchWheel(f) ==
    /\ IsTaggedWheel(f) /\ ~IsArmWheel(f) /\ ~IsUniversalWheel(f)
    /\ \E x \in { "win_amd64", "amd64", "x86_64", "x64", "win32", "i686" } : InTags(f.tags, x)

\* the decision on the files of the target version
ClassifyRelease(ans, target) ==
    LET files  == ans.releases[target]
        yanked == files # << >> /\ files[1].yanked
        live   == { f \in Range(files) : ~f.yanked }
        warn   == IF yanked THEN "yanked" ELSE "None"
    IN  IF \E f \in live : IsArmWheel(f)
        THEN PypiResult("True", Why("ARM-specific wheels found for version", "", target, NoSpec), target, warn)
        ELSE IF \E f \in live : IsUniversalWheel(f)
        THEN PypiResult("True", Why("Platform-agnostic or universal wheels found for version", "", target, NoSpec), target, warn)
        ELSE IF \E f \in live : f.packagetype = "sdist"
        THEN IF ans.native \/ ans.platform \notin { "None", "", "any" }
             THEN PypiResult("partial", Why("Source distribution found, may require compilation on ARM64", "", target, NoSpec), target, warn)
             ELSE PypiResult("True", Why("Likely pure Python source distribution found", "", target, NoSpec), target, warn)
        ELSE IF \E f \in live : IsOtherArchWheel(f)
        THEN PypiResult("False", Why("Only non-ARM wheels (e.g., x86_64) found for non-yanked files of version", "", target, NoSpec), target, warn)
        ELSE PypiResult("unknown", Why("No non-yanked wheels or source distribution found for version", "", target, NoSpec), target, warn)

\* the target version: [ok, target] or the result returned instead, with
\* store = the result is written to the cache
ResolveTarget(name, spec, ans) ==
    LET keys == DOMAIN ans.releases
        fail(reason, store) == [ ok |-> FALSE, target |-> NoVersion,
                                 result |-> PypiUnknown(reason), store |-> store ]
        found(v) == [ ok |-> TRUE, target |-> v, result |-> PypiUnknown(Why("", "", v, NoSpec)),
                      store |-> TRUE ]
    IN  IF spec # NoSpec
        THEN IF ~IsValidSpecifier(spec)
             THEN fail(Why("Invalid version specifier", "", NoVersion, spec), TRUE)
             ELSE IF \E v \in keys : ~IsValidVersion(v)
             THEN IF ans.latest = NoVersion
                  THEN fail(Why("Could not determine target version due to parsing errors.", "", NoVersion, NoSpec), TRUE)
                  ELSE found(ans.latest)
             ELSE LET allowed_versions == { v \in keys : SpecifierContains(spec, v) } IN
                  IF allowed_versions # {}
                  THEN found(MaxVersion(allowed_versions))
                  ELSE fail(Why("No version found satisfying", "", NoVersion, spec), TRUE)
        ELSE IF ans.latest = NoVersion
             THEN fail(Why("Could not determine latest version from PyPI info.", "", NoVersion, NoSpec), FALSE)
             ELSE found(ans.latest)

\* the body of _check_pypi_package_arm_compatibility after a cache miss
PypiLookup(normalized_name, spec, ans) ==
    LET ret(r, store) == [ result |-> r, store |-> store ] IN
    IF ans.kind = "network_error"
    THEN ret(PypiUnknown(Why("Network error checking PyPI", "", NoVersion, NoSpec)), FALSE)
    ELSE IF ans.status = 404
    THEN ret(PypiUnknown(Why("Package not found on PyPI.", normalized_name, NoVersion, NoSpec)), TRUE)
    ELSE IF ans.status # 200
    THEN ret(PypiUnknown(Why("PyPI API error: HTTP status", "", NoVersion, NoSpec)), FALSE)
    ELSE IF ans.kind = "bad_json"
    THEN ret(PypiUnknown(Why("Unexpected error during PyPI check", "", NoVersion, NoSpec)), FALSE)
    ELSE IF DOMAIN ans.releases = {}
    THEN ret(PypiUnknown(Why("No releases found on PyPI.", normalized_name, NoVersion, NoSpec)), TRUE)
    ELSE LET t == ResolveTarget(normalized_name, spec, ans) IN
         IF ~t.ok THEN ret(t.result, t.store)
         ELSE IF t.target \notin DOMAIN ans.releases
         THEN ret(PypiResult("unknown", Why("Internal error: Target version details missing.", "", t.target, NoSpec),
                             t.target, "None"), FALSE)
         ELSE ret(ClassifyRelease(ans, t.target), TRUE)

PypiCacheKey(package_name, spec) == [ name |-> canonicalize_name(package_name), spec |-> spec ]

PypiRequest(name) == [ op |-> "pypi", name |-> name ]

\* _check_pypi_package_arm_compatibility(package_name, spec) with the cache
\* cache, ans being what pypi.org answers if it is asked
CheckPypiPackage(package_name, spec, cache, ans) ==
    LET cache_key == PypiCacheKey(package_name, spec) IN
    IF cache_key \in DOMAIN cache
    THEN [ result |-> cache[cache_key], cache |-> cache, requests |-> << >> ]
    ELSE LET out == PypiLookup(cache_key.name, spec, ans) IN
         [ result   |-> out.result,
           cache    |-> IF out.store THEN (cache_key :> out.result) @@ cache ELSE cache,
           requests |-> << PypiRequest(cache_key.name) >> ]

\* a line of a requirements file: the text matched by the three groups of
\* the line pattern (name, extras, specifier) and the text after them that
\* the pattern cannot match
Line(name, extras, spec, rest) == [ name |-> name, extras |-> extras, spec |-> spec, rest |-> rest ]

\* the line as one text
LineText(line) ==
    CASE line.name = "-e"  -> "-e ."
      [] line.name = "git" -> "git+https://example.org/pkg.git"
      [] OTHER             -> line.name

\* re.match of the line pattern: a name, optional extras, an optional
\* specifier that runs to the end of the line
LineMatches(line) == line.name # "" /\ (line.rest = "" \/ line.spec # NoSpec)

\* parse_dependencies on a file of one line, were an unrecognized line skipped
ParseRequirementLineSkipping(line, file_path) ==
    IF line.name = "" /\ line.rest = ""
    THEN << >>
    ELSE IF LineMatches(line)
    THEN << [ name          |-> line.name,
              version_spec  |-> IF line.extras # "" THEN OtherText(line.extras) ELSE NoSpec,
              original_line |-> line,
              file          |-> file_path,
              parse_error   |-> FALSE ] >>
    ELSE << >>

\* PythonDependencyChecker.parse_dependencies on a file of one line
ParseRequirementLine(line, file_path) ==
    IF line.name = "" /\ line.rest = ""
    THEN << >>
    ELSE IF LineMatches(line)
    THEN LET group1 == line.name
             group2 == line.extras
             group3 == line.spec
         IN  << [ name          |-> group1,
                  version_spec  |-> IF group2 # "" THEN OtherText(group2) ELSE NoSpec,
                  original_line |-> line,
                  file          |-> file_path,
                  parse_error   |-> FALSE ] >>
    ELSE << [ name          |-> LineText(line),
              version_spec  |-> NoSpec,
              original_line |-> line,
              file          |-> file_path,
              parse_error   |-> TRUE ] >>

\* a line as it stands in the file: the text before the first "#" (stripped)
\* and the comment from the "#" on
FileLine(line, comment) == [ line |-> line, comment |-> comment ]

\* PythonDependencyChecker.parse_dependencies(file_content, file_path), the
\* content given as its lines
RECURSIVE parse_dependencies(_, _)
parse_dependencies(file_content, file_path) ==
    IF file_content = << >> THEN << >>
    ELSE ParseRequirementLine(Head(file_content).line, file_path)
         \o parse_dependencies(Tail(file_content), file_path)

\* the parsed results of the Wheel Tester: None, or a dict by package name
NoTesterData == [ some |-> FALSE, data |-> << >> ]
TesterData(d) == [ some |-> TRUE, data |-> d ]

\* the environments of the Wheel Tester consulted, in order
TestEnvs == << "noble", "jammy", "focal" >>

\* _get_latest_wheel_tester_results(): ans is what the artifact download
\* gives if it is attempted
GetWheelTesterResults(fetched, cache, ans) ==
    IF fetched
    THEN [ data |-> cache, fetched |-> TRUE, cache |-> cache, requests |-> << >> ]
    ELSE IF ans.kind = "ok"
    THEN [ data |-> TesterData(ans.data), fetched |-> TRUE, cache |-> TesterData(ans.data),
           requests |-> << [ op |-> "wheel_tester", name |-> "runs" ],
                           [ op |-> "wheel_tester", name |-> "artifacts" ],
                           [ op |-> "wheel_tester", name |-> "zip" ] >> ]
    ELSE [ data |-> NoTesterData, fetched |-> TRUE, cache |-> cache,
           requests |-> IF ans.kind = "no_token" THEN << >>
                        ELSE << [ op |-> "wheel_tester", name |-> "runs" ] >> ]

\* a dict of results that is not None and not empty
HasTesterData(data) == data.some /\ DOMAIN data.data # {}

\* the first environment, in order, whose test passed (0: none)
PassedEnvIndex(info) ==
    LET passed == { i \in 1..Len(TestEnvs) : TestEnvs[i] \in DOMAIN info /\ info[TestEnvs[i]].passed }
    IN  IF passed = {} THEN 0 ELSE Min(passed)

\* the environments recorded as failed before the loop stopped
FailedEnvs(info) ==
    LET stop == IF PassedEnvIndex(info) = 0 THEN Len(TestEnvs) + 1 ELSE PassedEnvIndex(info)
    IN  SelectSeq(TestEnvs, LAMBDA e :
            /\ e \in DOMAIN info /\ ~info[e].passed
            /\ \E i \in 1..(stop - 1) : TestEnvs[i] = e)

FinalReason(base, notes) == [ base |-> base, notes |-> notes ]

\* steps 1 and 2 of check_compatibility: the PyPI verdict, then the tester's
MergeWheelTester(pypi_result, data, name) ==
    LET status0 == IF pypi_result.compatible \in { "True", "False", "partial" }
                   THEN pypi_result.compatible ELSE "unknown"
        reason0 == FinalReason(pypi_result.reason, << >>)
    IN  IF ~HasTesterData(data)
        THEN [ compatible |-> status0, reason |-> reason0, status |-> "fetch_error" ]
        ELSE IF name \notin DOMAIN data.data
        THEN [ compatible |-> status0, reason |-> reason0, status |-> "not_found" ]
        ELSE LET info == data.data[name]
                 p    == PassedEnvIndex(info)
                 fs   == FailedEnvs(info)
             IN  IF p # 0
                 THEN [ compatible |-> "True",
                        reason |-> FinalReason(Why("Passed tests in Wheel Tester.", TestEnvs[p], NoVersion, NoSpec),
                                               IF info[TestEnvs[p]].build
                                               THEN << "(Build was required)." >> ELSE << >>),
                        status |-> "found" ]
                 ELSE IF fs # << >> /\ status0 \notin { "True", "partial" }
                 THEN [ compatible |-> "False",
                        reason |-> FinalReason(Why("Failed tests in Wheel Tester.", "", NoVersion, NoSpec), fs),
                        status |-> "found" ]
                 ELSE IF fs # << >> /\ status0 = "partial"
                 THEN [ compatible |-> status0,
                        reason |-> FinalReason(pypi_result.reason,
                                               << "Additionally, failed tests in Wheel Tester." >> \o fs),
                        status |-> "found" ]
                 ELSE [ compatible |-> status0, reason |-> reason0, status |-> "found" ]

\* the final consolidation of check_compatibility
Consolidate(m, pypi_result) ==
    LET n1 == IF m.compatible = "partial"
              THEN Append(m.reason.notes, "Source compilation might be required on ARM64.")
              ELSE IF m.compatible = "unknown" /\ pypi_result.compatible = "unknown"
                      /\ m.status # "found"
              THEN Append(m.reason.notes, "Manual check recommended.")
              ELSE m.reason.notes
        n2 == IF pypi_result.warning # "None" THEN Append(n1, "Warning: version is yanked") ELSE n1
    IN  FinalReason(m.reason.base, n2)

\* PythonDependencyChecker.check_compatibility(dependency_info)
PythonCheckCompatibility(dep, cache, ans, fetched, tester_cache, tester_ans) ==
    IF dep.parse_error
    THEN [ value |-> dep @@ [ compatible |-> "unknown",
                              reason |-> FinalReason(Why("Could not parse line in requirements file.",
                                                         "", NoVersion, NoSpec), << >>),
                              debug_info |-> [ pypi_check |-> PypiUnknown(Why("", "", NoVersion, NoSpec)),
                                               wheel_tester_check |-> "None" ] ],
           cache |-> cache, fetched |-> fetched, tester_cache |-> tester_cache,
           requests |-> << >> ]
    ELSE LET p  == CheckPypiPackage(dep.name, dep.version_spec, cache, ans)
             w  == GetWheelTesterResults(fetched, tester_cache, tester_ans)
             m  == MergeWheelTester(p.result, w.data, canonicalize_name(dep.name))
         IN  [ value |-> dep @@ [ compatible |-> m.compatible,
                                  reason     |-> Consolidate(m, p.result),
                                  debug_info |-> [ pypi_check |-> p.result,
                                                   wheel_tester_check |-> m.status ] ],
               cache |-> p.cache, fetched |-> w.fetched, tester_cache |-> w.cache,
               requests |-> p.requests \o w.requests ]

-----------------------------------------------------------------------------
(* js_checker.py: the NPM client.  Versions and specs are texts.           *)

\* semver.VersionInfo.parse(version_str) returns (it raises ValueError otherwise)
IsSemver(version_str) == version_str \in { "1.3.0", "2.0.0", "9.9.9" }

\* max_satisfying(available_versions, version_range): called with a range
\* that is not empty, "*" or "latest", it only knows the exact match
max_satisfying(available_versions, version_range) ==
    LET valid_versions == { v \in available_versions :
                              /\ IsSemver(v)
                              /\ \/ version_range \in { "", "*", "latest" }
                                 \/ v = version_range }
    IN  IF valid_versions = {} THEN "None"
        ELSE IF version_range \in valid_versions THEN version_range
        ELSE CHOOSE v \in valid_versions : TRUE

NpmWhy(t, version, spec) == [ t |-> t, version |-> version, spec |-> spec ]

NpmResult(compatible, reasons, checked_version, spec_satisfied, source, is_fallback) ==
    [ compatible |-> compatible, reason |-> reasons, checked_version |-> checked_version,
      spec_satisfied |-> spec_satisfied,
      debug_info |-> [ source |-> source, is_fallback |-> is_fallback ] ]

NpmKey(package_name, at) == [ name |-> package_name, at |-> at ]

\* the negated entries of a cpu field that name an architecture other than arm
NegatedOther == { "!x64", "!ia32" }

\* the metadata checks with the binary and script steps setting partial always
MetadataCheckLastWins(meta) ==
    LET cpu == meta.cpu
        os  == meta.os
        is_arm_allowed  == cpu \cap { "arm", "arm64", "any" } # {}
        is_only_non_arm == cpu \subseteq { "x64", "ia32" }
        \* 5a: the branch of the cpu field taken
        cpu_case ==
            IF cpu = {} THEN "none"
            ELSE IF cpu \cap { "!arm", "!arm64" } # {} THEN "cpu_exclusion"
            ELSE IF ~is_arm_allowed /\ is_only_non_arm THEN "cpu_non_arm_only"
            ELSE IF ~is_arm_allowed /\ cpu \cap NegatedOther = {} /\ "any" \notin cpu
            THEN "cpu_no_arm_mention"
            ELSE IF "arm" \in cpu /\ "arm64" \notin cpu THEN "cpu_arm32_only"
            ELSE "none"
        status_cpu ==
            IF cpu_case \in { "cpu_exclusion", "cpu_non_arm_only" } THEN "False"
            ELSE IF cpu_case \in { "cpu_no_arm_mention", "cpu_arm32_only" } THEN "partial"
            ELSE "True"
        \* 5b: the branch of the os field taken
        os_case ==
            IF os = {} THEN "none"
            ELSE IF "!linux" \in os THEN "os_linux_exclusion"
            ELSE IF os \cap { "linux", "any", "!win32", "!darwin" } = {}
                    /\ os \subseteq { "win32", "darwin", "freebsd" }
            THEN "os_non_linux_only"
            ELSE "none"
        status_os == IF os_case # "none" THEN "False" ELSE status_cpu
        \* 5c, 5d: the binary field, then the install scripts
        status_binary == IF meta.binary /\ TRUE THEN "partial" ELSE status_os
        status_scripts == IF meta.gyp /\ TRUE THEN "partial" ELSE status_binary
        indicators == ({ cpu_case, os_case } \ { "none" })
                      \cup (IF meta.binary THEN { "binary_field" } ELSE {})
                      \cup (IF meta.gyp THEN { "build_script_native" } ELSE {})
    IN  [ compatible |-> status_scripts,
          reasons    |-> { NpmWhy(i, "", "") : i \in indicators } ]

\* steps 5a-5d: the status and the reasons read from the version's metadata
MetadataCheck(meta) ==
    LET cpu == meta.cpu
        os  == meta.os
        is_arm_allowed  == cpu \cap { "arm", "arm64", "any" } # {}
        is_only_non_arm == cpu \subseteq { "x64", "ia32" }
        \* 5a: the branch of the cpu field taken
        cpu_case ==
            IF cpu = {} THEN "none"
            ELSE IF cpu \cap { "!arm", "!arm64" } # {} THEN "cpu_exclusion"
            ELSE IF ~is_arm_allowed /\ is_only_non_arm THEN "cpu_non_arm_only"
            ELSE IF ~is_arm_allowed /\ cpu \cap NegatedOther = {} /\ "any" \notin cpu
            THEN "cpu_no_arm_mention"
            ELSE IF "arm" \in cpu /\ "arm64" \notin cpu THEN "cpu_arm32_only"
            ELSE "none"
        status_cpu ==
            IF cpu_case \in { "cpu_exclusion", "cpu_non_arm_only" } THEN "False"
            ELSE IF cpu_case \in { "cpu_no_arm_mention", "cpu_arm32_only" } THEN "partial"
            ELSE "True"
        \* 5b: the branch of the os field taken
        os_case ==
            IF os = {} THEN "none"
            ELSE IF "!linux" \in os THEN "os_linux_exclusion"
            ELSE IF os \cap { "linux", "any", "!win32", "!darwin" } = {}
                    /\ os \subseteq { "win32", "darwin", "freebsd" }
            THEN "os_non_linux_only"
            ELSE "none"
        status_os == IF os_case # "none" THEN "False" ELSE status_cpu
        \* 5c, 5d: the binary field, then the install scripts
        status_binary == IF meta.binary /\ status_os # "False" THEN "partial" ELSE status_os
        status_scripts == IF meta.gyp /\ status_binary # "False" THEN "partial" ELSE status_binary
        indicators == ({ cpu_case, os_case } \ { "none" })
                      \cup (IF meta.binary THEN { "binary_field" } ELSE {})
                      \cup (IF meta.gyp THEN { "build_script_native" } ELSE {})
    IN  [ compatible |-> status_scripts,
          reasons    |-> { NpmWhy(i, "", "") : i \in indicators } ]

\* step 2: the version the spec resolves to; error = ValueError is raised
ResolveSpec(version_spec, ans) ==
    LET latest_version_str == ans.latest
        out(error, target, is_fallback, satisfied, reasons) ==
            [ error |-> error, target |-> target, is_fallback |-> is_fallback,
              spec_satisfied |-> satisfied, reasons |-> reasons ]
    IN  IF version_spec \in { "", "*", "latest" }
        THEN IF latest_version_str # "None"
             THEN out(FALSE, latest_version_str, version_spec # "latest",
                      IF version_spec = "latest" THEN "True" ELSE "False", {})
             ELSE out(TRUE, "None", FALSE, "None", {})
        ELSE LET target_version_str == max_satisfying(DOMAIN ans.versions, version_spec) IN
             IF target_version_str = "None"
             THEN IF latest_version_str # "None"
                  THEN out(FALSE, latest_version_str, TRUE, "False",
                           { NpmWhy("No version satisfied spec, fell back to latest",
                                    latest_version_str, version_spec) })
                  ELSE out(TRUE, "None", FALSE, "None", {})
             ELSE out(FALSE, target_version_str, FALSE, "True",
                      { NpmWhy("Resolved spec to version", target_version_str, version_spec) })

\* the body of _check_npm_package_compatibility after the entry check, with
\* the cache it leaves.  A body that is not JSON raises a RequestException
\* with a recent requests library (kind bad_json) and a json.JSONDecodeError
\* with an older one (kind bad_json_legacy)
NpmLookup(package_name, version_spec, cache, ans) ==
    LET fallback_cache_key == NpmKey(package_name, version_spec)
        failed(t, source) ==
            LET r == NpmResult("unknown", { NpmWhy(t, "", version_spec) }, "None", "None", source, FALSE)
            IN  [ result |-> r, cache |-> (fallback_cache_key :> r) @@ cache ]
    IN  IF ans.kind = "network_error"
        THEN failed("Network error checking NPM", "network_error")
        ELSE IF ans.status = 404
        THEN failed("Package not found on NPM registry.", "npm_registry_error")
        ELSE IF ans.status # 200 \/ ans.kind = "bad_json"
        THEN failed("Network error checking NPM", "network_error")
        ELSE IF ans.kind = "bad_json_legacy"
        THEN failed("Failed to parse NPM registry response.", "json_decode_error")
        ELSE IF DOMAIN ans.versions = {}
        THEN failed("No version information found for package on NPM registry.",
                    "npm_registry_no_versions")
        ELSE LET res == ResolveSpec(version_spec, ans) IN
             IF res.error
             THEN failed("Invalid version spec or unable to resolve", "version_resolution_error")
             ELSE LET success_cache_key == NpmKey(package_name, res.target) IN
                  IF success_cache_key \in DOMAIN cache
                  THEN [ result |-> [ cache[success_cache_key] EXCEPT
                                        !.spec_satisfied = IF res.is_fallback THEN "False" ELSE "True" ],
                         cache  |-> cache ]
                  ELSE IF res.target \notin DOMAIN ans.versions
                  THEN LET r == NpmResult("unknown",
                                    { NpmWhy("Internal error: Metadata missing for resolved version",
                                             res.target, "") },
                                    res.target, res.spec_satisfied, "metadata_fetch_error",
                                    res.is_fallback)
                       IN  [ result |-> r, cache |-> (success_cache_key :> r) @@ cache ]
                  ELSE LET m  == MetadataCheck(ans.versions[res.target])
                           rs == res.reasons \cup m.reasons
                           r  == NpmResult(m.compatible,
                                    IF rs = {} /\ m.compatible = "True"
                                    THEN { NpmWhy("Package version appears compatible based on metadata analysis.",
                                                  res.target, "") }
                                    ELSE rs,
                                    res.target, res.spec_satisfied,
                                    "npm_registry_metadata_check", res.is_fallback)
                       IN  [ result |-> r,
                             cache  |-> IF res.is_fallback
                                        THEN (fallback_cache_key :> r) @@ (success_cache_key :> r) @@ cache
                                        ELSE (success_cache_key :> r) @@ cache ]

NpmRequest(name) == [ op |-> "npm", name |-> name ]

\* JSDependencyChecker._check_npm_package_compatibility(package_name, version_spec)
CheckNpmPackage(package_name, version_spec, cache, ans) ==
    LET fallback_cache_key == NpmKey(package_name, version_spec) IN
    IF /\ fallback_cache_key \in DOMAIN cache
       /\ \/ cache[fallback_cache_key].spec_satisfied = "False"
          \/ cache[fallback_cache_key].compatible = "error"
    THEN [ result |-> cache[fallback_cache_key], cache |-> cache, requests |-> << >> ]
    ELSE LET out == NpmLookup(package_name, version_spec, cache, ans) IN
         [ result |-> out.result, cache |-> out.cache,
           requests |-> << NpmRequest(package_name) >> ]

-----------------------------------------------------------------------------
(* AnalysisOrchestrator._determine_overall_compatibility                   *)

\* the findings of all aggregation outputs, in the order of the dict
RECURSIVE AllFindings(_, _)
AllFindings(agg, keys) ==
    IF keys = << >> THEN << >>
    ELSE Get(agg[Head(keys)], "results", << >>) \o AllFindings(agg, Tail(keys))

\* comp_status = item.get("compatible"), read by identity: is False / is True / else
CompStatus(item) == Get(item, "compatible", "None")

CountWhere(items, v) == Cardinality({ i \in 1..Len(items) : CompStatus(items[i]) = v })

ErrorSlots(agg, keys) ==
    Cardinality({ i \in 1..Len(keys) :
                    /\ Get(agg[keys[i]], "results", << >>) = << >>
                    /\ "error" \in DOMAIN agg[keys[i]] })

NoFilesReasoning == Text("No relevant files found for enabled analyzers.")
NoIndicatorsReasoning == Text("No specific ARM64 compatibility indicators found in analyzed files.")
IncompatibleReasoning == Text("Repository marked as incompatible due to one or more components conflicting with ARM64.")
CompatibleReasoning == Text("Repository appears likely compatible with ARM64 as no explicitly incompatible components were found.")
NoFilesRecommendation == Text("Verify repository structure and enabled analyzers if analysis was expected.")
NoIndicatorsRecommendation == Text("Manual verification recommended as no specific issues were detected.")

_determine_overall_compatibility(agg, keys, recs, reasoning, by_type, total, names) ==
    LET findings         == AllFindings(agg, keys)
        has_findings     == findings # << >>
        incompatible     == CountWhere(findings, "False")
        compatible       == CountWhere(findings, "True")
        unknown          == Len(findings) - incompatible - compatible + ErrorSlots(agg, keys)
        overall          == IF ~has_findings THEN "unknown"
                            ELSE IF incompatible > 0 THEN "incompatible"
                            ELSE "compatible"
        final_reasoning  == << CASE ~has_findings /\ total = 0 -> NoFilesReasoning
                                 [] ~has_findings /\ total > 0 -> NoIndicatorsReasoning
                                 [] has_findings /\ incompatible > 0 -> IncompatibleReasoning
                                 [] OTHER -> CompatibleReasoning >> \o reasoning
        final_recs       == (IF ~has_findings
                             THEN { IF total = 0 THEN NoFilesRecommendation
                                    ELSE NoIndicatorsRecommendation }
                             ELSE {}) \cup Range(recs)
    IN  [ analysis_details      |-> agg,
          overall_compatibility |-> overall,
          recommendations       |-> SortedList(final_recs),
          context |->
            [ analysis_summary  |-> [ files_analyzed_by_type |-> by_type,
                                      total_files_analyzed   |-> total ],
              reasoning         |-> Dedupe(final_reasoning),
              enabled_analyzers |-> names,
              statistics        |-> [ incompatible_items    |-> incompatible,
                                      compatible_items      |-> compatible,
                                      unknown_items         |-> unknown,
                                      total_recommendations |-> Cardinality(final_recs) ] ] ]

-----------------------------------------------------------------------------
(* The environment: sample inputs and the answers of the forge             *)

MaxTreeItems == 2

SampleUrls ==
    { HttpGithub \o << "o", "/", "r" >> \o DotGit \o << "/" >>,
      HttpsGithub \o << "o" >> }

\* entries a tree may hold, in the order the forge lists them
TreeCandidates ==
    << [ type |-> "blob", path |-> << "Dockerfile" >> ],
       [ type |-> "blob", path |-> << "README", ".md" >> ],
       [ type |-> "blob", path |-> << "docker", "/", "Dockerfile", ".prod" >> ],
       [ type |-> "tree", path |-> << "infra", ".tf" >> ],
       [ type |-> "blob", path |-> << "main", ".tf" >> ],
       [ type |-> "blob", path |-> << "requirements", ".txt" >> ] >>

\* the trees of at most MaxTreeItems entries
SampleTrees ==
    { SelectSeq(TreeCandidates, LAMBDA e : e \in S) :
        S \in { T \in SUBSET Range(TreeCandidates) : Cardinality(T) <= MaxTreeItems } }

T3Large    == << "t3", ".", "large" >>
T3LargeUp  == << "T3", ".", "Large" >>
T4gMicro   == << "t4g", ".", "micro" >>
P3_2xlarge == << "p3", ".", "2xlarge" >>
Z9Large    == << "z9", ".", "large" >>

\* .tf files: the instance_type values they assign and the indicator words they hold
TerraformSamples ==
    { [ its |-> { T3Large }, words |-> {} ],
      [ its |-> { P3_2xlarge, T4gMicro }, words |-> { "arm64" } ],
      [ its |-> { Z9Large }, words |-> {} ],
      [ its |-> { T3LargeUp }, words |-> { "graviton" } ],
      [ its |-> {}, words |-> { "architecture" } ] }

\* the orders in which list(set(matches)) may list a set of at most two values
ListsOfSet(S) == { q \in SeqsUpTo(S, 2) : Len(q) = Cardinality(S) /\ Range(q) = S }

PythonSlim  == << "python", ":", "3.9-slim" >>
LegacyImage == << "someorg", "/", "legacy", ":", "1.0" >>

FromPlatformLine == << << "FROM" >>, << "--platform", "=", "linux", "/", "amd64" >>, PythonSlim >>
FromPythonLine   == << << "FROM" >>, PythonSlim >>
FromLegacyLine   == << << "FROM" >>, LegacyImage >>
FromScratchLine  == << << "FROM" >>, Scratch >>
WgetLine         == << << "RUN" >>, << "wget" >>,
                       << "https", ":", "/", "/", "x", "/", "app_amd64", ".", "tar", ".", "gz" >> >>
CopyLibLine      == << << "COPY" >>, << "lib", ".", "so" >>, << "/", "usr", "/", "lib" >> >>
ArgLine          == << << "ARG" >>, << "TARGETARCH" >> >>

\* container files
DockerSamples ==
    { << FromPlatformLine >>,
      << FromPythonLine >>,
      << FromLegacyLine >>,
      << FromScratchLine, CopyLibLine >>,
      << FromPythonLine, WgetLine >>,
      << FromPythonLine, ArgLine >> }

Numpy == [ name |-> "numpy", version_spec |-> "" ]

\* dependency files, by the outcome of parse_dependencies
DependencySamples ==
    { [ parse_ok |-> TRUE,  deps |-> << Numpy >> ],
      [ parse_ok |-> TRUE,  deps |-> << >> ],
      [ parse_ok |-> FALSE, deps |-> << >> ] }

Answer(kind, entries, config_digest, config_ok, os, arch, top_arch, status) ==
    [ kind |-> kind, entries |-> entries, config_digest |-> config_digest,
      config_ok |-> config_ok, os |-> os, arch |-> arch, top_arch |-> top_arch,
      status |-> status ]

AmdEntry == [ os |-> "linux", arch |-> "amd64" ]
ArmEntry == [ os |-> "linux", arch |-> "arm64" ]

\* answers of the registry to a manifest request
ManifestAnswers ==
    { Answer("list", << AmdEntry >>, FALSE, FALSE, "", "", "", 200),
      Answer("list", << AmdEntry, ArmEntry >>, FALSE, FALSE, "", "", "", 200),
      Answer("list", << >>, FALSE, FALSE, "", "", "", 200),
      Answer("manifest", << >>, TRUE, TRUE, "linux", "arm64", "", 200),
      Answer("manifest", << >>, TRUE, FALSE, "", "", "amd64", 200),
      Answer("other", << >>, FALSE, FALSE, "", "", "", 200),
      Answer("http", << >>, FALSE, FALSE, "", "", "", 404),
      Answer("network", << >>, FALSE, FALSE, "", "", "", 0) }

\* answers of check_compatibility ("raise": it raises)
CheckAnswers == { "True", "False", "partial", "unknown", "raise" }

\* outcomes of get_file_content that yield no content, with what the orchestrator sees
FetchFailures ==
    { [ cause |-> "not_found",     exc |-> "None" ],                        \* 404: returns None
      [ cause |-> "not_a_file",    exc |-> "None" ],                        \* returns None
      [ cause |-> "http_error",    exc |-> "GithubApiException" ],
      [ cause |-> "decode_error",  exc |-> "FileContentDecodeException" ],
      [ cause |-> "network_error", exc |-> "RequestException" ] }

-----------------------------------------------------------------------------
(* analyze_repository, step by step                                        *)

Init ==
    /\ github_url \in SampleUrls
    /\ enabled \in SUBSET AnalyzerNames
    /\ pc = "start"
    /\ owner = << >>
    /\ repo = << >>
    /\ default_branch = NoValue
    /\ tree_items = << >>
    /\ todo = << >>
    /\ files_to_analyze = << >>
    /\ raw_analysis_outputs = << >>
    /\ files_analyzed_by_type = << >>
    /\ total_files_analyzed = 0
    /\ skipped = << >>
    /\ aggregated_results = << >>
    /\ combined_recommendations = << >>
    /\ combined_reasoning = << >>
    /\ requests = << >>
    /\ manifest_cache = << >>
    /\ registry_requests = << >>
    /\ raised = NoException
    /\ result = Pending
    /\ calls = << >>
    /\ registry = << >>
    /\ _PYPI_CACHE = << >>
    /\ _NPM_CACHE = << >>
    /\ _WHEEL_TESTER_CACHE = NoTesterData
    /\ _WHEEL_TESTER_CACHE_FETCHED = FALSE

\* an exception leaves the try block, were there no generic except clause:
\* an exception of another class leaves analyze_repository, nothing is returned
FailKnownOnly(o, r, e) ==
    /\ raised' = e
    /\ result' = IF e.type \in KnownErrors THEN ErrorResult(github_url, o, r, e) ELSE Pending
    /\ pc' = "done"

\* an exception leaves the try block: one of the two except clauses returns
Fail(o, r, e) ==
    /\ raised' = e
    /\ result' = ErrorResult(github_url, o, r, e)
    /\ pc' = "done"

\* _extract_repo_info and the check that some analyzer is enabled
Start ==
    /\ pc = "start"
    /\ LET m == ExtractRepoInfo(github_url) IN
       IF m = << >>
       THEN /\ Fail(<< >>, << >>, Exc("ValueError", "Invalid GitHub repository URL format"))
            /\ UNCHANGED << owner, repo >>
       ELSE /\ owner' = m[1]
            /\ repo' = m[2]
            /\ IF enabled = {}
               THEN Fail(m[1], m[2], Exc("ValueError", "No analysis modules are enabled."))
               ELSE pc' = "repo_info" /\ UNCHANGED << raised, result >>
    /\ UNCHANGED << client_vars, github_url, enabled, default_branch, tree_items, todo,
                    files_to_analyze, raw_analysis_outputs, files_analyzed_by_type,
                    total_files_analyzed, skipped, aggregated_results,
                    combined_recommendations, combined_reasoning, requests,
                    manifest_cache, registry_requests >>

\* answers of the forge to GET /repos/{owner}/{repo}
RepoInfoResponses ==
    { [ kind |-> "ok", default_branch |-> "main" ],
      [ kind |-> "ok", default_branch |-> "develop" ],
      [ kind |-> "ok", default_branch |-> NoValue ],  \* no default_branch field
      [ kind |-> "not_found", default_branch |-> NoValue ],
      [ kind |-> "http_error", default_branch |-> NoValue ],
      [ kind |-> "network_error", default_branch |-> NoValue ] }

\* step 1: get_repository_info
GetRepositoryInfo ==
    /\ pc = "repo_info"
    /\ requests' = Append(requests, Req("repo_info", << >>))
    /\ \E resp \in RepoInfoResponses :
         CASE resp.kind = "ok" ->
                /\ default_branch' = IF resp.default_branch = NoValue THEN "main"
                                     ELSE resp.default_branch
                /\ pc' = "tree"
                /\ UNCHANGED << raised, result >>
           [] resp.kind = "not_found" ->
                /\ Fail(owner, repo, Exc("RepositoryNotFoundException", "Repository not found (404)."))
                /\ UNCHANGED default_branch
           [] resp.kind = "http_error" ->
                /\ Fail(owner, repo, Exc("GithubApiException", "Failed to get repository info: HTTP status"))
                /\ UNCHANGED default_branch
           [] resp.kind = "network_error" ->
                /\ Fail(owner, repo, Exc("RequestException", "network error"))
                /\ UNCHANGED default_branch
    /\ UNCHANGED << client_vars, github_url, enabled, owner, repo, tree_items, todo,
                    files_to_analyze, raw_analysis_outputs, files_analyzed_by_type,
                    total_files_analyzed, skipped, aggregated_results,
                    combined_recommendations, combined_reasoning,
                    manifest_cache, registry_requests >>

\* answers of the forge to the two requests of get_repository_tree
TreeResponses ==
    { [ kind |-> k, has_tree |-> FALSE, items |-> << >> ] :
        k \in { "branch_not_found", "branch_http_error", "no_commit_sha",
                "branch_network_error", "tree_http_error", "tree_network_error" } }
    \cup { [ kind |-> "ok", has_tree |-> FALSE, items |-> << >> ] }   \* 200, no "tree" in the body
    \cup { [ kind |-> "ok", has_tree |-> TRUE, items |-> t ] : t \in SampleTrees }

TreeException(kind) ==
    CASE kind = "branch_not_found"  -> Exc("BranchNotFoundException", "Branch not found (404).")
      [] kind = "branch_http_error" -> Exc("GithubApiException", "Failed to get branch info: HTTP status")
      [] kind = "no_commit_sha"     -> Exc("GithubApiException", "Could not find commit SHA for branch")
      [] kind = "tree_http_error"   -> Exc("GithubApiException", "Failed to get repository tree: HTTP status")
      [] OTHER                      -> Exc("RequestException", "network error")

\* the requests get_repository_tree issues before it returns or raises
TreeRequests(kind) ==
    IF kind \in { "branch_not_found", "branch_http_error", "no_commit_sha", "branch_network_error" }
    THEN << Req("branch", << >>) >>
    ELSE << Req("branch", << >>), Req("tree", << >>) >>

\* steps 2 and 3: get_repository_tree, then the worklists; the counters of step 4 start
GetRepositoryTree ==
    /\ pc = "tree"
    /\ \E resp \in TreeResponses :
         /\ requests' = requests \o TreeRequests(resp.kind)
         /\ IF resp.kind # "ok"
            THEN /\ Fail(owner, repo, TreeException(resp.kind))
                 /\ UNCHANGED << tree_items, todo, files_to_analyze, raw_analysis_outputs,
                                 files_analyzed_by_type >>
            ELSE LET names == EnabledAnalyzerNames(enabled)
                     items == IF resp.has_tree THEN resp.items ELSE << >>
                     files == IdentifyRelevantFiles(items, names)
                 IN  /\ tree_items' = items
                     /\ files_to_analyze' = files
                     /\ todo' = Worklist(files, names)
                     /\ raw_analysis_outputs' = [ n \in Range(names) |-> << >> ]
                     /\ files_analyzed_by_type' = [ n \in Range(names) |-> 0 ]
                     /\ pc' = IF Worklist(files, names) = << >> THEN "aggregate" ELSE "files"
                     /\ UNCHANGED << raised, result >>
    /\ UNCHANGED << client_vars, github_url, enabled, owner, repo, default_branch,
                    total_files_analyzed, skipped, aggregated_results,
                    combined_recommendations, combined_reasoning,
                    manifest_cache, registry_requests >>

\* what analyzer_instance.analyze may return for a file of the analyzer
AnalysisOutputs(analyzer, file_path) ==
    CASE analyzer = "terraform" ->
            UNION { { TerraformAnalyze(c, its) : its \in ListsOfSet(c.its) } : c \in TerraformSamples }
      [] analyzer = "docker" ->
            { DockerAnalyze(c, file_path) : c \in DockerSamples }
      [] analyzer = "dependency" ->
            { DependencyAnalyze(c, file_path) : c \in DependencySamples }

\* {"file": file_path, **analysis_output}
StoredOutput(file_path, analysis_output) == analysis_output @@ [ file |-> file_path ]

\* a per-file handler that catches the decode error only
PerFileCaughtDecodeOnly(exc) == exc = "FileContentDecodeException"

\* the handlers inside the loop: except FileContentDecodeException, then
\* except Exception, which catches whatever else was raised
PerFileCaught(exc) == exc # "None"

\* step 4, one file: get_file_content, analyze, store; a failure skips the file
AnalyzeFile ==
    /\ pc = "files"
    /\ todo # << >>
    /\ LET analyzer  == Head(todo).analyzer
           file_path == Head(todo).path
       IN  /\ requests' = Append(requests, Req("content", file_path))
           /\ \/ \E f \in FetchFailures :
                    IF f.exc = "None" \/ PerFileCaught(f.exc)
                    THEN /\ skipped' = Append(skipped, [ analyzer |-> analyzer, path |-> file_path,
                                                         cause |-> f.cause, exc |-> f.exc ])
                         /\ todo' = Tail(todo)
                         /\ pc' = IF Tail(todo) = << >> THEN "aggregate" ELSE "files"
                         /\ UNCHANGED << raw_analysis_outputs, files_analyzed_by_type,
                                         total_files_analyzed, raised, result >>
                    ELSE /\ Fail(owner, repo, Exc(f.exc, f.cause))
                         /\ UNCHANGED << raw_analysis_outputs, files_analyzed_by_type,
                                         total_files_analyzed, skipped, todo >>
              \/ \E out \in AnalysisOutputs(analyzer, file_path) :
                    /\ raw_analysis_outputs' =
                          [ raw_analysis_outputs EXCEPT
                              ![analyzer] = Append(@, StoredOutput(file_path, out)) ]
                    /\ files_analyzed_by_type' =
                          [ files_analyzed_by_type EXCEPT ![analyzer] = @ + 1 ]
                    /\ total_files_analyzed' = total_files_analyzed + 1
                    /\ todo' = Tail(todo)
                    /\ pc' = IF Tail(todo) = << >> THEN "aggregate" ELSE "files"
                    /\ UNCHANGED << skipped, raised, result >>
    /\ UNCHANGED << client_vars, github_url, enabled, owner, repo, default_branch, tree_items,
                    files_to_analyze, aggregated_results, combined_recommendations,
                    combined_reasoning, manifest_cache, registry_requests >>

\* step 5 handles the analyzers in the order of self.analyzers
Remaining ==
    SelectSeq(EnabledAnalyzerNames(enabled),
              LAMBDA n : analysis_key(n) \notin DOMAIN aggregated_results)

\* the bookkeeping of step 5 for one aggregate_results output
StoreAggregate(name, agg_result) ==
    /\ aggregated_results' = aggregated_results @@ (analysis_key(name) :> agg_result)
    /\ combined_recommendations' = combined_recommendations \o agg_result.recommendations
    /\ combined_reasoning' = combined_reasoning \o agg_result.reasoning
    /\ pc' = IF Len(Remaining) = 1 THEN "verdict" ELSE "aggregate"

AggregateTerraform ==
    /\ pc = "aggregate"
    /\ Remaining # << >> /\ Head(Remaining) = "terraform"
    /\ StoreAggregate("terraform", TerraformAggregate(raw_analysis_outputs["terraform"]))
    /\ UNCHANGED << client_vars, github_url, enabled, owner, repo, default_branch, tree_items, todo,
                    files_to_analyze, raw_analysis_outputs, files_analyzed_by_type,
                    total_files_analyzed, skipped, requests, manifest_cache,
                    registry_requests, raised, result >>

\* a slot that keeps the error text only
AggregateErrorSlotBare(agg_error) == [ error |-> agg_error.msg ]

\* except Exception as agg_error: the slot stored for the analyzer
AggregateErrorSlot(agg_error) ==
    [ error |-> agg_error.msg, results |-> << >>, recommendations |-> << >>,
      reasoning |-> << >> ]

\* step 5 for one analyzer whose aggregate_results raises: the error slot is
\* stored, the combined lists are left alone and the loop goes on
AggregateRaises ==
    /\ pc = "aggregate"
    /\ Remaining # << >>
    /\ aggregated_results' = aggregated_results @@
           (analysis_key(Head(Remaining)) :>
               AggregateErrorSlot(Exc("Exception", "aggregation failed")))
    /\ pc' = IF Len(Remaining) = 1 THEN "verdict" ELSE "aggregate"
    /\ UNCHANGED << client_vars, github_url, enabled, owner, repo, default_branch, tree_items, todo,
                    files_to_analyze, raw_analysis_outputs, files_analyzed_by_type,
                    total_files_analyzed, skipped, combined_recommendations,
                    combined_reasoning, requests, manifest_cache,
                    registry_requests, raised, result >>

\* Pass 2 of the container aggregation: one check per image key, in sorted order
RECURSIVE CheckImages(_, _, _)
CheckImages(keys, cache, answers) ==
    IF keys = << >> THEN [ info |-> << >>, cache |-> cache, requests |-> << >> ]
    ELSE LET first == CheckImage(Head(keys), cache, answers[Head(keys)])
             rest  == CheckImages(Tail(keys), first.cache, answers)
         IN  [ info     |-> (Head(keys) :> first.result) @@ rest.info,
               cache    |-> rest.cache,
               requests |-> first.requests \o rest.requests ]

AggregateDocker ==
    /\ pc = "aggregate"
    /\ Remaining # << >> /\ Head(Remaining) = "docker"
    /\ LET outputs == raw_analysis_outputs["docker"]
           keys    == SortedList(ImageKeys(outputs))
       IN  \E answers \in [ ImageKeys(outputs) -> ManifestAnswers ] :
              LET checked == CheckImages(keys, manifest_cache, answers) IN
              /\ manifest_cache' = checked.cache
              /\ registry_requests' = registry_requests \o checked.requests
              /\ StoreAggregate("docker", DockerAggregate(outputs, checked.info))
    /\ UNCHANGED << client_vars, github_url, enabled, owner, repo, default_branch, tree_items, todo,
                    files_to_analyze, raw_analysis_outputs, files_analyzed_by_type,
                    total_files_analyzed, skipped, requests, raised, result >>

DependencyNames(outputs) == { d.name : d \in Range(DependencyOccurrences(outputs)) }

AggregateDependency ==
    /\ pc = "aggregate"
    /\ Remaining # << >> /\ Head(Remaining) = "dependency"
    /\ LET outputs == raw_analysis_outputs["dependency"] IN
       \E answers \in [ DependencyNames(outputs) -> CheckAnswers ] :
          StoreAggregate("dependency", DependencyAggregate(outputs, answers))
    /\ UNCHANGED << client_vars, github_url, enabled, owner, repo, default_branch, tree_items, todo,
                    files_to_analyze, raw_analysis_outputs, files_analyzed_by_type,
                    total_files_analyzed, skipped, requests, manifest_cache,
                    registry_requests, raised, result >>

\* step 6: the verdict and the success result
DetermineOverall ==
    /\ pc = "verdict"
    /\ LET names == EnabledAnalyzerNames(enabled)
           keys  == [ i \in 1..Len(names) |-> analysis_key(names[i]) ]
       IN  result' = [ repository     |-> repo_identifier(owner, repo),
                       github_url     |-> github_url,
                       default_branch |-> default_branch ]
                     @@ _determine_overall_compatibility(
                            aggregated_results, keys, combined_recommendations,
                            combined_reasoning, files_analyzed_by_type,
                            total_files_analyzed, names)
    /\ pc' = "done"
    /\ UNCHANGED << client_vars, github_url, enabled, owner, repo, default_branch, tree_items, todo,
                    files_to_analyze, raw_analysis_outputs, files_analyzed_by_type,
                    total_files_analyzed, skipped, aggregated_results,
                    combined_recommendations, combined_reasoning, requests,
                    manifest_cache, registry_requests, raised >>

Next ==
    \/ Start
    \/ GetRepositoryInfo
    \/ GetRepositoryTree
    \/ AnalyzeFile
    \/ AggregateTerraform
    \/ AggregateDocker
    \/ AggregateDependency
    \/ AggregateRaises
    \/ DetermineOverall

Spec == Init /\ [][Next]_vars

-----------------------------------------------------------------------------
(* _extract_repo_info on its own, over many input strings                  *)

MaxUrlTokens == 5

UrlChunks == { << "a" >>, << "/" >>, DotGit, << " " >> }

UrlPrefixes ==
    { HttpsGithub, HttpGithub,
      << " " >> \o HttpsGithub,
      << "x" >> \o HttpsGithub,
      SubSeq(HttpsGithub, 1, Len(HttpsGithub) - 1) }

UrlInputs ==
    { p \o Flatten(q) : p \in UrlPrefixes, q \in SeqsUpTo(UrlChunks, MaxUrlTokens) }

InitUrl ==
    /\ github_url \in UrlInputs
    /\ enabled = AnalyzerNames
    /\ pc = "url"
    /\ owner = << >>
    /\ repo = << >>
    /\ default_branch = NoValue
    /\ tree_items = << >>
    /\ todo = << >>
    /\ files_to_analyze = << >>
    /\ raw_analysis_outputs = << >>
    /\ files_analyzed_by_type = << >>
    /\ total_files_analyzed = 0
    /\ skipped = << >>
    /\ aggregated_results = << >>
    /\ combined_recommendations = << >>
    /\ combined_reasoning = << >>
    /\ requests = << >>
    /\ manifest_cache = << >>
    /\ registry_requests = << >>
    /\ raised = NoException
    /\ result = Pending
    /\ calls = << >>
    /\ registry = << >>
    /\ _PYPI_CACHE = << >>
    /\ _NPM_CACHE = << >>
    /\ _WHEEL_TESTER_CACHE = NoTesterData
    /\ _WHEEL_TESTER_CACHE_FETCHED = FALSE

\* one call of _extract_repo_info(github_url)
ExtractUrl ==
    /\ pc = "url"
    /\ LET m == ExtractRepoInfo(github_url) IN
       IF m = << >>
       THEN /\ raised' = Exc("ValueError", "Invalid GitHub repository URL format")
            /\ UNCHANGED << owner, repo >>
       ELSE /\ owner' = m[1]
            /\ repo' = m[2]
            /\ UNCHANGED raised
    /\ pc' = "url_done"
    /\ UNCHANGED << client_vars, github_url, enabled, default_branch, tree_items, todo,
                    files_to_analyze, raw_analysis_outputs, files_analyzed_by_type,
                    total_files_analyzed, skipped, aggregated_results,
                    combined_recommendations, combined_reasoning, requests,
                    manifest_cache, registry_requests, result >>

NextUrl == ExtractUrl

SpecUrl == InitUrl /\ [][NextUrl]_vars

-----------------------------------------------------------------------------
(* The analyzers and the registry clients called directly, in one process. *)
(* The process makes a first series of calls (run 1), then repeats the     *)
(* same series (run 2: a second analysis of the same repository).  A       *)
(* registry answers a repeated request as it answered the first one.       *)

MaxCalls == 2

CallRec(op, args, value, reqs) ==
    [ op |-> op, args |-> args, value |-> value, requests |-> reqs,
      run |-> IF pc = "run1" THEN 1 ELSE 2 ]

Run1Calls == SelectSeq(calls, LAMBDA c : c.run = 1)
Run2Calls == SelectSeq(calls, LAMBDA c : c.run = 2)

\* the arguments the next call of op may have: free in run 1 (one kind of
\* call per process), those of the corresponding call of run 1 in run 2
CallInputs(op, inputs) ==
    IF pc = "run1"
    THEN IF Len(calls) < MaxCalls /\ (calls = << >> \/ calls[1].op = op)
         THEN inputs ELSE {}
    ELSE IF pc = "run2" /\ Len(Run2Calls) < Len(Run1Calls)
            /\ Run1Calls[Len(Run2Calls) + 1].op = op
    THEN { Run1Calls[Len(Run2Calls) + 1].args }
    ELSE {}

\* paths of the files a direct call of aggregate_results is given outputs of
UnitFiles(analyzer) ==
    CASE analyzer = "terraform"  -> { << "main", ".tf" >>, << "net", ".tf" >> }
      [] analyzer = "docker"     -> { << "Dockerfile" >>,
                                      << "docker", "/", "Dockerfile", ".prod" >> }
      [] analyzer = "dependency" -> { << "requirements", ".txt" >>,
                                      << "app", "/", "requirements", ".txt" >> }

T3Bare  == << "t3" >>
A1Bare  == << "a1" >>
MacBare == << "mac" >>

\* .tf files for the direct calls: those of the runs and bare family names
TerraformUnitSamples ==
    TerraformSamples \cup { [ its |-> { T3Bare }, words |-> {} ],
                            [ its |-> { A1Bare, MacBare }, words |-> {} ] }

\* container files for the direct calls: those of the runs, a copy of a file
\* named for x86 and a command given the target platform of the build
CopyAmd64Line == << << "COPY" >>, << "bin", "/", "app_amd64" >>, << "/", "usr", "/", "bin" >> >>

RunTargetLine == << << "RUN" >>, << "buildx" >>, << "--platform" >>, << "$", "TARGETPLATFORM" >> >>

DockerUnitSamples ==
    DockerSamples \cup { << FromLegacyLine, CopyAmd64Line >>,
                         << FromPythonLine, RunTargetLine >> }

Pandas == [ name |-> "pandas", version_spec |-> "" ]

\* per-file outputs for file f: for the infra analyzer both the shape its
\* aggregate_results documents ("analysis" holding analyze's output) and the
\* shape the orchestrator stores
UnitOutputs(analyzer, f) ==
    CASE analyzer = "terraform" ->
            UNION { { [ file |-> f, analysis |-> TerraformAnalyze(c, its) ] : its \in ListsOfSet(c.its) }
                    \cup { StoredOutput(f, TerraformAnalyze(c, its)) : its \in ListsOfSet(c.its) } :
                    c \in TerraformUnitSamples }
      [] analyzer = "docker" ->
            { StoredOutput(f, DockerAnalyze(c, f)) : c \in DockerUnitSamples }
      [] analyzer = "dependency" ->
            { StoredOutput(f, DependencyAnalyze(c, f)) :
                c \in DependencySamples \cup { [ parse_ok |-> TRUE, deps |-> << Pandas, Numpy >> ] } }

\* the lists of per-file outputs of one or two distinct files
OutputLists(analyzer) ==
    UNION { { << o >> : o \in UnitOutputs(analyzer, f) } : f \in UnitFiles(analyzer) }
    \cup UNION { UNION { { << o1, o2 >> : o1 \in UnitOutputs(analyzer, f1),
                                          o2 \in UnitOutputs(analyzer, f2) } :
                         f2 \in UnitFiles(analyzer) \ { f1 } } :
                 f1 \in UnitFiles(analyzer) }

Reorderings(xs) ==
    { [ i \in 1..Len(xs) |-> xs[f[i]] ] :
        f \in { g \in [ 1..Len(xs) -> 1..Len(xs) ] : \A i, j \in 1..Len(xs) : g[i] = g[j] => i = j } }

\* the image keys whose inspection asks the registry
KeysToRequest(keys, cache) ==
    { k \in keys : k \notin DOMAIN cache /\ k # Scratch /\ k # Scratch \o << ":", "latest" >> }

\* the answers of the container registry for the keys: a key asked before is
\* answered as before (keys that are not asked get an unused filler)
ImageAnswers(keys, cache, candidates) ==
    { a @@ [ k \in keys |-> Answer("network", << >>, FALSE, FALSE, "", "", "", 0) ] :
        a \in { b \in [ KeysToRequest(keys, cache) -> candidates ] :
                  \A k \in DOMAIN b \cap DOMAIN registry.images : b[k] = registry.images[k] } }

\* the answers of check_compatibility per package name, decided by the index
PackageAnswers(names) ==
    { a \in [ names -> CheckAnswers ] :
        \A n \in names \cap DOMAIN registry.packages : a[n] = registry.packages[n] }

\* one direct call of aggregate_results of an analyzer
AggregateCall(analyzer, outputs) ==
    CASE analyzer = "terraform" ->
            /\ calls' = Append(calls, CallRec("aggregate_results",
                                   [ analyzer |-> analyzer, outputs |-> outputs ],
                                   TerraformAggregate(outputs), << >>))
            /\ UNCHANGED << manifest_cache, registry >>
      [] analyzer = "docker" ->
            LET keys == ImageKeys(outputs) IN
            \E answers \in ImageAnswers(keys, manifest_cache, ManifestAnswers) :
               \E checked \in { CheckImages(SortedList(keys), manifest_cache, answers) } :
               /\ manifest_cache' = checked.cache
               /\ registry' = [ registry EXCEPT !.images =
                                  [ k \in KeysToRequest(keys, manifest_cache) |-> answers[k] ] @@ @ ]
               /\ calls' = Append(calls, CallRec("aggregate_results",
                                      [ analyzer |-> analyzer, outputs |-> outputs ],
                                      DockerAggregate(outputs, checked.info), checked.requests))
      [] analyzer = "dependency" ->
            \E answers \in PackageAnswers(DependencyNames(outputs)) :
               /\ registry' = [ registry EXCEPT !.packages = answers @@ @ ]
               /\ calls' = Append(calls, CallRec("aggregate_results",
                                      [ analyzer |-> analyzer, outputs |-> outputs ],
                                      DependencyAggregate(outputs, answers), << >>))
               /\ UNCHANGED manifest_cache

\* the arguments of a direct aggregation: any list for the first call, a
\* reordering of the first call's list for the next one
AggregateInputs ==
    IF calls = << >>
    THEN UNION { { [ analyzer |-> a, outputs |-> os ] : os \in OutputLists(a) } : a \in AnalyzerNames }
    ELSE IF calls[1].op = "aggregate_results"
    THEN { [ analyzer |-> calls[1].args.analyzer, outputs |-> os ] :
             os \in Reorderings(calls[1].args.outputs) }
    ELSE {}

Aggregate ==
    /\ \E arg \in CallInputs("aggregate_results", AggregateInputs) :
          AggregateCall(arg.analyzer, arg.outputs)
    /\ UNCHANGED << github_url, enabled, pc, owner, repo, default_branch, tree_items,
                    todo, files_to_analyze, raw_analysis_outputs, files_analyzed_by_type,
                    total_files_analyzed, skipped, aggregated_results,
                    combined_recommendations, combined_reasoning, requests,
                    registry_requests, raised, result, _PYPI_CACHE, _NPM_CACHE,
                    _WHEEL_TESTER_CACHE, _WHEEL_TESTER_CACHE_FETCHED >>

Arm64Upper == [ os |-> "Linux", arch |-> "ARM64" ]
Aarch64Entry == [ os |-> "linux", arch |-> "aarch64" ]
WindowsArm == [ os |-> "windows", arch |-> "arm64" ]
NoOsArm == [ os |-> "", arch |-> "arm64" ]

\* answers of the registry to a manifest request of a direct inspection
UnitManifestAnswers ==
    ManifestAnswers
    \cup { Answer("list", << Arm64Upper >>, FALSE, FALSE, "", "", "", 200),
           Answer("list", << AmdEntry, Aarch64Entry >>, FALSE, FALSE, "", "", "", 200),
           Answer("list", << WindowsArm >>, FALSE, FALSE, "", "", "", 200),
           Answer("list", << NoOsArm >>, FALSE, FALSE, "", "", "", 200),
           Answer("manifest", << >>, TRUE, TRUE, "linux", "amd64", "", 200),
           Answer("manifest", << >>, TRUE, FALSE, "", "", "arm64", 200),
           Answer("manifest", << >>, FALSE, FALSE, "", "", "arm64", 200),
           Answer("manifest", << >>, FALSE, FALSE, "", "", "amd64", 200),
           Answer("manifest", << >>, FALSE, FALSE, "", "", "", 200),
           Answer("parse", << >>, FALSE, FALSE, "", "", "", 200),
           Answer("parse_legacy", << >>, FALSE, FALSE, "", "", "", 200) }
    \cup { Answer("http", << >>, FALSE, FALSE, "", "", "", st) : st \in { 401, 403, 429, 500 } }

\* image names given to a direct inspection
SampleImages == { Scratch, Scratch \o << ":", "latest" >>, << "python" >>,
                  << "python", ":", "latest" >>, LegacyImage }

\* one direct call of _check_image_compatibility_via_manifest
InspectImage ==
    /\ \E image \in CallInputs("_check_image_compatibility_via_manifest", SampleImages) :
         LET key == NormalizeImageKey(image) IN
         \E answers \in ImageAnswers({ key }, manifest_cache, UnitManifestAnswers) :
            LET c == CheckImage(image, manifest_cache, answers[key]) IN
            /\ manifest_cache' = c.cache
            /\ registry' = [ registry EXCEPT !.images =
                               [ k \in KeysToRequest({ key }, manifest_cache) |-> answers[k] ] @@ @ ]
            /\ calls' = Append(calls, CallRec("_check_image_compatibility_via_manifest",
                                              image, c.result, c.requests))
    /\ UNCHANGED << github_url, enabled, pc, owner, repo, default_branch, tree_items,
                    todo, files_to_analyze, raw_analysis_outputs, files_analyzed_by_type,
                    total_files_analyzed, skipped, aggregated_results,
                    combined_recommendations, combined_reasoning, requests,
                    registry_requests, raised, result, _PYPI_CACHE, _NPM_CACHE,
                    _WHEEL_TESTER_CACHE, _WHEEL_TESTER_CACHE_FETCHED >>

V1_26 == << 1, 26 >>
V2_0  == << 2, 0 >>
V3_0  == << 3, 0 >>
LegacyKey == << -1, 0 >>

ArmWheel  == File("bdist_wheel", << "cp311", "cp311", "manylinux_aarch64" >>, FALSE)
X86Wheel  == File("bdist_wheel", << "cp311", "cp311", "manylinux_x86_64" >>, FALSE)
AnyWheel  == File("bdist_wheel", << "py3", "none", "any" >>, FALSE)
Sdist     == File("sdist", << >>, FALSE)
YankedArm == File("bdist_wheel", << "cp311", "cp311", "manylinux_aarch64" >>, TRUE)
RiscvWheel   == File("bdist_wheel", << "cp311", "cp311", "linux_riscv64" >>, FALSE)
MacUniversal == File("bdist_wheel", << "cp311", "cp311", "macosx_universal2" >>, FALSE)

PypiAnswer(kind, status, releases, latest, native) ==
    [ kind |-> kind, status |-> status, releases |-> releases, latest |-> latest,
      native |-> native, platform |-> "None" ]

\* answers of pypi.org to the request for a package's JSON
PypiAnswers ==
    { PypiAnswer("ok", 200, (V1_26 :> << ArmWheel >>) @@ (V2_0 :> << X86Wheel >>), V2_0, FALSE),
      PypiAnswer("ok", 200, (V1_26 :> << X86Wheel >>) @@ (V2_0 :> << ArmWheel, Sdist >>), V2_0, FALSE),
      PypiAnswer("ok", 200, (V1_26 :> << Sdist >>) @@ (V2_0 :> << AnyWheel >>), V1_26, TRUE),
      PypiAnswer("ok", 200, (V2_0 :> << YankedArm, X86Wheel >>), V2_0, FALSE),
      PypiAnswer("ok", 200, (V1_26 :> << ArmWheel >>), NoVersion, FALSE),
      PypiAnswer("ok", 200, (V1_26 :> << ArmWheel >>), V2_0, FALSE),
      PypiAnswer("ok", 200, (LegacyKey :> << >>) @@ (V1_26 :> << ArmWheel >>), V1_26, FALSE),
      PypiAnswer("ok", 200, (V2_0 :> << Sdist, X86Wheel >>), V2_0, FALSE),
      PypiAnswer("ok", 200, (V2_0 :> << YankedArm >>), V2_0, FALSE),
      PypiAnswer("ok", 200, (V2_0 :> << RiscvWheel >>), V2_0, FALSE),
      PypiAnswer("ok", 200, (V2_0 :> << MacUniversal >>), V2_0, FALSE),
      PypiAnswer("ok", 200, (V2_0 :> << >>), V2_0, FALSE),
      [ PypiAnswer("ok", 200, (V2_0 :> << Sdist >>), V2_0, FALSE) EXCEPT !.platform = "linux" ],
      PypiAnswer("ok", 200, << >>, NoVersion, FALSE),
      PypiAnswer("ok", 404, << >>, NoVersion, FALSE),
      PypiAnswer("ok", 500, << >>, NoVersion, FALSE),
      PypiAnswer("network_error", 0, << >>, NoVersion, FALSE),
      PypiAnswer("bad_json", 200, << >>, NoVersion, FALSE) }

\* what the registry answers for a name: as before if it was asked before
AnswersFor(asked, name, candidates) ==
    IF name \in DOMAIN asked THEN { asked[name] } ELSE candidates

\* arguments of the direct calls of the PyPI client
PypiArgs ==
    { [ name |-> n, spec |-> s ] :
        n \in { "numpy", "NumPy" },
        s \in { NoSpec, Specifier("<", V2_0), Specifier(">=", V3_0), OtherText("[security]") } }

\* one direct call of _check_pypi_package_arm_compatibility
CheckPypi ==
    /\ \E arg \in CallInputs("_check_pypi_package_arm_compatibility", PypiArgs) :
         LET name == canonicalize_name(arg.name) IN
         \E ans \in AnswersFor(registry.pypi, name, PypiAnswers) :
            \E c \in { CheckPypiPackage(arg.name, arg.spec, _PYPI_CACHE, ans) } :
            /\ _PYPI_CACHE' = c.cache
            /\ registry' = IF c.requests = << >> THEN registry
                           ELSE [ registry EXCEPT !.pypi = (name :> ans) @@ @ ]
            /\ calls' = Append(calls, CallRec("_check_pypi_package_arm_compatibility",
                                              arg, c.result, c.requests))
    /\ UNCHANGED << github_url, enabled, pc, owner, repo, default_branch, tree_items,
                    todo, files_to_analyze, raw_analysis_outputs, files_analyzed_by_type,
                    total_files_analyzed, skipped, aggregated_results,
                    combined_recommendations, combined_reasoning, requests,
                    manifest_cache, registry_requests, raised, result, _NPM_CACHE,
                    _WHEEL_TESTER_CACHE, _WHEEL_TESTER_CACHE_FETCHED >>

\* lines of a requirements file
RequirementLines ==
    { Line("numpy", "", NoSpec, ""),
      Line("numpy", "", Specifier("<", V2_0), ""),
      Line("NumPy", "", Specifier("==", V1_26), ""),
      Line("numpy", "[security]", Specifier(">=", V1_26), ""),
      Line("numpy", "", NoSpec, "; python_version < '3.8'"),
      Line("-e", "", NoSpec, "."),
      Line("", "", NoSpec, "") }

TestOf(passed, build) == [ passed |-> passed, build |-> build ]

\* what the download of the Wheel Tester results gives
TesterAnswers ==
    { [ kind |-> "no_token", data |-> << >> ],
      [ kind |-> "request_error", data |-> << >> ],
      [ kind |-> "ok", data |-> << >> ],
      [ kind |-> "ok", data |-> ("pandas" :> ("noble" :> TestOf(TRUE, FALSE))) ],
      [ kind |-> "ok", data |-> ("numpy" :> ("noble" :> TestOf(TRUE, FALSE))) ],
      [ kind |-> "ok", data |-> ("numpy" :> (("jammy" :> TestOf(FALSE, FALSE))
                                             @@ ("focal" :> TestOf(TRUE, TRUE)))) ],
      [ kind |-> "ok", data |-> ("numpy" :> (("noble" :> TestOf(FALSE, FALSE))
                                             @@ ("bionic" :> TestOf(TRUE, FALSE)))) ] }

RequirementsPath == << "requirements", ".txt" >>

\* one line of a requirements file parsed and its dependencies checked, as the
\* dependency manager does with PythonDependencyChecker
CheckRequirement ==
    /\ \E line \in CallInputs("PythonDependencyChecker.check_compatibility", RequirementLines) :
         LET parsed_deps == ParseRequirementLine(line, RequirementsPath) IN
         IF parsed_deps = << >>
         THEN /\ calls' = Append(calls, CallRec("PythonDependencyChecker.check_compatibility",
                                                line, << >>, << >>))
              /\ UNCHANGED << registry, _PYPI_CACHE, _WHEEL_TESTER_CACHE,
                              _WHEEL_TESTER_CACHE_FETCHED >>
         ELSE LET dep  == parsed_deps[1]
                  name == canonicalize_name(dep.name)
              IN  \E ans \in AnswersFor(registry.pypi, name, PypiAnswers) :
                  \E tester_ans \in (IF registry.wheel_tester.kind = "unasked"
                                     THEN TesterAnswers ELSE { registry.wheel_tester }) :
                  \E c \in { PythonCheckCompatibility(dep, _PYPI_CACHE, ans,
                                  _WHEEL_TESTER_CACHE_FETCHED, _WHEEL_TESTER_CACHE, tester_ans) } :
                     LET asked_pypi == \E i \in 1..Len(c.requests) : c.requests[i].op = "pypi"
                     IN  /\ _PYPI_CACHE' = c.cache
                         /\ _WHEEL_TESTER_CACHE' = c.tester_cache
                         /\ _WHEEL_TESTER_CACHE_FETCHED' = c.fetched
                         /\ registry' =
                              [ registry EXCEPT
                                  !.pypi = IF asked_pypi THEN (name :> ans) @@ @ ELSE @,
                                  !.wheel_tester = IF dep.parse_error THEN @ ELSE tester_ans ]
                         /\ calls' = Append(calls, CallRec("PythonDependencyChecker.check_compatibility",
                                                           line, << c.value >>, c.requests))
    /\ UNCHANGED << github_url, enabled, pc, owner, repo, default_branch, tree_items,
                    todo, files_to_analyze, raw_analysis_outputs, files_analyzed_by_type,
                    total_files_analyzed, skipped, aggregated_results,
                    combined_recommendations, combined_reasoning, requests,
                    manifest_cache, registry_requests, raised, result, _NPM_CACHE >>

MaxFileLines == 3

\* the lines requirements files are made of: requirements with and without
\* a trailing comment, a comment line, a blank line, an editable install
RequirementFileLines ==
    { FileLine(Line("numpy", "", Specifier("<", V2_0), ""), "# pinned"),
      FileLine(Line("pandas", "", NoSpec, ""), ""),
      FileLine(Line("", "", NoSpec, ""), "# dependencies"),
      FileLine(Line("", "", NoSpec, ""), ""),
      FileLine(Line("-e", "", NoSpec, "."), "") }

\* one direct call of parse_dependencies on a requirements file
ParseFile ==
    /\ \E file_content \in CallInputs("parse_dependencies",
             IF calls = << >> THEN SeqsUpTo(RequirementFileLines, MaxFileLines) ELSE {}) :
          calls' = Append(calls, CallRec("parse_dependencies", file_content,
                                         parse_dependencies(file_content, RequirementsPath), << >>))
    /\ UNCHANGED << github_url, enabled, pc, owner, repo, default_branch, tree_items,
                    todo, files_to_analyze, raw_analysis_outputs, files_analyzed_by_type,
                    total_files_analyzed, skipped, aggregated_results,
                    combined_recommendations, combined_reasoning, requests,
                    manifest_cache, registry_requests, raised, result, registry,
                    _PYPI_CACHE, _NPM_CACHE, _WHEEL_TESTER_CACHE,
                    _WHEEL_TESTER_CACHE_FETCHED >>

NpmMeta(cpu, os, binary, gyp) == [ cpu |-> cpu, os |-> os, binary |-> binary, gyp |-> gyp ]
PlainMeta == NpmMeta({}, {}, FALSE, FALSE)

NpmAnswer(kind, status, versions, latest) ==
    [ kind |-> kind, status |-> status, versions |-> versions, latest |-> latest ]

\* metadata of a version: cpu and os fields, a binary field, a native build
NpmMetas ==
    { NpmMeta(cpu, os, binary, gyp) :
        cpu \in { {}, { "x64" }, { "!arm64" }, { "arm" }, { "ppc64" }, { "arm64", "x64" }, { "!x64" } },
        os \in { {}, { "win32" }, { "!linux" }, { "linux", "darwin" } },
        binary \in BOOLEAN, gyp \in BOOLEAN }

\* answers of registry.npmjs.org to the request for a package
NpmAnswers ==
    { NpmAnswer("ok", 200, ("1.3.0" :> PlainMeta) @@ ("2.0.0" :> NpmMeta({ "x64" }, {}, FALSE, FALSE)), "2.0.0"),
      NpmAnswer("ok", 200, ("1.3.0" :> NpmMeta({}, {}, FALSE, TRUE)) @@ ("2.0.0" :> PlainMeta), "1.3.0"),
      NpmAnswer("ok", 200, ("1.3.0" :> NpmMeta({}, { "win32" }, TRUE, FALSE)), "1.3.0"),
      NpmAnswer("ok", 200, ("1.3.0" :> PlainMeta), "None"),
      NpmAnswer("ok", 200, ("1.3.0" :> PlainMeta), "2.0.0"),
      NpmAnswer("ok", 200, << >>, "None"),
      NpmAnswer("ok", 404, << >>, "None"),
      NpmAnswer("ok", 500, << >>, "None"),
      NpmAnswer("network_error", 0, << >>, "None"),
      NpmAnswer("bad_json", 200, << >>, "None"),
      NpmAnswer("bad_json_legacy", 200, << >>, "None") }
    \cup { NpmAnswer("ok", 200, ("2.0.0" :> m), "2.0.0") : m \in NpmMetas }

\* arguments of the direct calls of the NPM client
NpmArgs ==
    { [ name |-> "left-pad", spec |-> s ] :
        s \in { "", "*", "latest", "1.3.0", "2.0.0", "^1.0.0", ">=1.0.0", "^9.0.0" } }

\* one direct call of _check_npm_package_compatibility
CheckNpm ==
    /\ \E arg \in CallInputs("_check_npm_package_compatibility", NpmArgs) :
         \E ans \in AnswersFor(registry.npm, arg.name, NpmAnswers) :
            \E c \in { CheckNpmPackage(arg.name, arg.spec, _NPM_CACHE, ans) } :
            /\ _NPM_CACHE' = c.cache
            /\ registry' = IF c.requests = << >> THEN registry
                           ELSE [ registry EXCEPT !.npm = (arg.name :> ans) @@ @ ]
            /\ calls' = Append(calls, CallRec("_check_npm_package_compatibility",
                                              arg, c.result, c.requests))
    /\ UNCHANGED << github_url, enabled, pc, owner, repo, default_branch, tree_items,
                    todo, files_to_analyze, raw_analysis_outputs, files_analyzed_by_type,
                    total_files_analyzed, skipped, aggregated_results,
                    combined_recommendations, combined_reasoning, requests,
                    manifest_cache, registry_requests, raised, result, _PYPI_CACHE,
                    _WHEEL_TESTER_CACHE, _WHEEL_TESTER_CACHE_FETCHED >>

\* the first series of calls is over: the process starts the same series again
SecondRun ==
    /\ pc = "run1"
    /\ calls # << >>
    /\ pc' = "run2"
    /\ UNCHANGED << github_url, enabled, owner, repo, default_branch, tree_items,
                    todo, files_to_analyze, raw_analysis_outputs, files_analyzed_by_type,
                    total_files_analyzed, skipped, aggregated_results,
                    combined_recommendations, combined_reasoning, requests,
                    manifest_cache, registry_requests, raised, result, client_vars >>

InitClients ==
    /\ github_url = << >>
    /\ enabled = AnalyzerNames
    /\ pc = "run1"
    /\ owner = << >>
    /\ repo = << >>
    /\ default_branch = NoValue
    /\ tree_items = << >>
    /\ todo = << >>
    /\ files_to_analyze = << >>
    /\ raw_analysis_outputs = << >>
    /\ files_analyzed_by_type = << >>
    /\ total_files_analyzed = 0
    /\ skipped = << >>
    /\ aggregated_results = << >>
    /\ combined_recommendations = << >>
    /\ combined_reasoning = << >>
    /\ requests = << >>
    /\ manifest_cache = << >>
    /\ registry_requests = << >>
    /\ raised = NoException
    /\ result = Pending
    /\ calls = << >>
    /\ registry = [ images |-> << >>, packages |-> << >>, pypi |-> << >>,
                    npm |-> << >>,
                    wheel_tester |-> [ kind |-> "unasked", data |-> << >> ] ]
    /\ _PYPI_CACHE = << >>
    /\ _NPM_CACHE = << >>
    /\ _WHEEL_TESTER_CACHE = NoTesterData
    /\ _WHEEL_TESTER_CACHE_FETCHED = FALSE

NextClients ==
    \/ Aggregate
    \/ InspectImage
    \/ CheckPypi
    \/ CheckRequirement
    \/ CheckNpm
    \/ ParseFile
    \/ SecondRun

SpecClients == InitClients /\ [][NextClients]_vars

-----------------------------------------------------------------------------
(* Claims                                                                  *)

\* the shape http(s)://github.com/<owner>/<repo>[.git][/] read on the text itself:
\* owner and repo non-empty and without a slash
IsRepoUrlShape(s) ==
    \E p \in { HttpsGithub, HttpGithub } :
       /\ StartsWith(s, p)
       /\ \E tail \in UrlTails :
            /\ EndsWith(s, tail)
            /\ LET mid == SubSeq(s, Len(p) + 1, Len(s) - Len(tail)) IN
               \E i \in 2..Len(mid) - 1 :
                  /\ mid[i] = "/"
                  /\ \A k \in 1..Len(mid) : (mid[k] = "/") => (k = i)

\* the text after the slash that ends the owner
RepoSegment(s) ==
    LET body == UrlAfterHost(s)
        i    == Min({ k \in 1..Len(body) : body[k] = "/" })
    IN  Drop(body, i)

\* (owner, repo) read off a text of the shape: one trailing slash dropped, then
\* one ".git" suffix dropped when something remains before it
ExpectedRepoInfo(s) ==
    LET body == UrlAfterHost(s)
        i    == Min({ k \in 1..Len(body) : body[k] = "/" })
        r0   == Drop(body, i)
        r1   == IF EndsWith(r0, << "/" >>) THEN SubSeq(r0, 1, Len(r0) - 1) ELSE r0
        r2   == IF EndsWith(r1, DotGit) /\ Len(r1) > Len(DotGit)
                THEN SubSeq(r1, 1, Len(r1) - Len(DotGit)) ELSE r1
    IN  << SubSeq(body, 1, i - 1), r2 >>

IsVerdict == pc = "done" /\ "overall_compatibility" \in DOMAIN result

\* the findings of the verdict, over all analyzers
VerdictFindings ==
    LET names == EnabledAnalyzerNames(enabled) IN
    AllFindings(result.analysis_details, [ i \in 1..Len(names) |-> analysis_key(names[i]) ])

\* what a finding reports about its item: infra and dependency findings in
\* "compatible", container findings in "arm64_support_native"
Reported(finding) ==
    IF "arm64_support_native" \in DOMAIN finding THEN finding.arm64_support_native
    ELSE Get(finding, "compatible", "unknown")

\* C1 (as stated): a verdict is 'incompatible' if and only if some finding in
\* analysis_details reports that its item is not ARM64-compatible.
C1_IncompatibleIffSomeFindingNo ==
    IsVerdict =>
        ( result.overall_compatibility = "incompatible"
          <=> \E i \in 1..Len(VerdictFindings) : Reported(VerdictFindings[i]) = "False" )

\* C2 (as stated): a verdict is 'unknown' if and only if no finding reports
\* yes, no or partial; findings that are all unknown never give 'compatible'.
C2_UnknownIffNoDefiniteFinding ==
    IsVerdict =>
        ( result.overall_compatibility = "unknown"
          <=> \A i \in 1..Len(VerdictFindings) :
                 Reported(VerdictFindings[i]) \notin { "True", "False", "partial" } )

\* a container finding whose manifest lists architectures, none of them linux/arm64
ListsArchitecturesWithoutArm64(finding) ==
    /\ "native_architectures" \in DOMAIN finding
    /\ finding.native_architectures # << >>
    /\ \A a \in Range(finding.native_architectures) :
          a \notin { Platform("linux", arch) : arch \in ARM64_ARCHS } \cup { << "multiple" >> }

\* C3 (as stated): when a base image's manifest lists architectures but not
\* linux/arm64, the verdict is 'incompatible' and the reasoning cites the
\* missing linux/arm64 support.
C3_ImageWithoutArm64IsIncompatible ==
    (IsVerdict /\ \E i \in 1..Len(VerdictFindings) :
                     ListsArchitecturesWithoutArm64(VerdictFindings[i]))
    => /\ result.overall_compatibility = "incompatible"
       /\ \E m \in Range(result.context.reasoning) :
             /\ m.t = "Base image does *not* natively support ARM64. Reason:"
             /\ m.y # << >>
             /\ m.y[1] = "Image manifest does not list linux/arm64 support. Found: "

\* C4 (as stated): the infra analyzer enabled alone and one template file with
\* instance_type = "t3.large" give 'compatible' and the recommendation to
\* replace t3.large with t4g.large in that file.
C4_T3LargeReachesFindings ==
    (/\ IsVerdict
     /\ enabled = { "terraform" }
     /\ Len(raw_analysis_outputs["terraform"]) = 1
     /\ raw_analysis_outputs["terraform"][1].instance_types = << T3Large >>)
    => /\ result.overall_compatibility = "compatible"
       /\ Msg("Replace x with y in file", T3Large, << "t4g", ".", "large" >>,
              raw_analysis_outputs["terraform"][1].file, << >>)
             \in Range(result.recommendations)

\* C5 (as stated): a container file that is only FROM --platform=linux/amd64
\* <image>, the image supporting linux/arm64: the image's migration potential
\* is High, the analyzer's overall potential stays High, the recommendation to
\* remove or change the flag is there, and the verdict is 'compatible'.
C5_PlatformFlagKeepsHigh ==
    (/\ IsVerdict
     /\ enabled = { "docker" }
     /\ Len(raw_analysis_outputs["docker"]) = 1
     /\ raw_analysis_outputs["docker"][1] =
           DockerAnalyze(<< FromPlatformLine >>, raw_analysis_outputs["docker"][1].file)
     /\ result.analysis_details["docker_analysis"].results[1].arm64_support_native = "True")
    => LET agg == result.analysis_details["docker_analysis"] IN
       /\ agg.results[1].migration_potential = "High"
       /\ agg.overall_potential = "High"
       /\ \E m \in Range(agg.recommendations) :
             m.t = "Modify Dockerfile(s): remove/change explicit --platform=linux/amd64"
       /\ result.overall_compatibility = "compatible"

\* the three terminal failures of the first steps
InvalidUrlRaised == raised = Exc("ValueError", "Invalid GitHub repository URL format")
RepoNotFoundRaised == raised.type = "RepositoryNotFoundException"
BranchNotFoundRaised == raised.type = "BranchNotFoundException"

\* C7: when the URL is invalid, or the forge answers 404 for the repository or
\* for the branch, the run has stopped at that step (no forge request after the
\* failing one, no file analyzed, nothing aggregated, no registry request) and
\* the result is exactly {repository, github_url, error}, the error being the
\* message of the exception, with no verdict key.
C7_TerminalErrorsSurfaceVerbatim ==
    (InvalidUrlRaised \/ RepoNotFoundRaised \/ BranchNotFoundRaised)
    => /\ pc = "done"
       /\ DOMAIN result = { "repository", "github_url", "error" }
       /\ result.error = << raised.msg >>
       /\ result.github_url = github_url
       /\ requests = CASE InvalidUrlRaised   -> << >>
                       [] RepoNotFoundRaised -> << Req("repo_info", << >>) >>
                       [] OTHER              -> << Req("repo_info", << >>), Req("branch", << >>) >>
       /\ total_files_analyzed = 0
       /\ DOMAIN aggregated_results = {}
       /\ registry_requests = << >>

\* C7 witness: the branch request was answered 404 and the run returned
C7_Witness ==
    /\ pc = "done"
    /\ BranchNotFoundRaised
    /\ result.error = << "Branch not found (404)." >>

\* C8 (as stated): when the tree request yields no tree or fails, the run
\* still returns a verdict, and the verdict is 'unknown'.
C8_UnreachableTreeGivesUnknown ==
    (/\ pc = "done"
     /\ requests # << >>
     /\ requests[Len(requests)] = Req("tree", << >>)
     /\ tree_items = << >>)
    => /\ "error" \notin DOMAIN result
       /\ IsVerdict
       /\ result.overall_compatibility = "unknown"

\* no blob of the tree matches a pattern of an enabled analyzer
NoBlobMatches ==
    \A i \in 1..Len(tree_items) :
       tree_items[i].type = "blob"
          => \A n \in enabled : ~MatchesPatterns(n, tree_items[i].path)

\* C9 (as stated): an empty tree gives 'unknown' with the entry saying no
\* relevant files were found; a non-empty tree without any matching blob gives
\* 'unknown' with a different entry instead.
C9_BoundaryCasesDistinguishable ==
    IsVerdict =>
       /\ tree_items = << >>
             => /\ result.overall_compatibility = "unknown"
                /\ NoFilesReasoning \in Range(result.context.reasoning)
       /\ (tree_items # << >> /\ NoBlobMatches)
             => /\ result.overall_compatibility = "unknown"
                /\ NoFilesReasoning \notin Range(result.context.reasoning)

\* C9 (amended): an empty tree and a non-empty tree without any matching blob
\* both give 'unknown' with the same single reasoning entry, the one saying no
\* relevant files were found; the other entry, saying no indicators were
\* found, appears only when at least one file was analyzed and no analyzer
\* produced a finding.
C9_BoundaryCasesShareReasoning ==
    IsVerdict =>
       /\ NoBlobMatches
             => /\ result.overall_compatibility = "unknown"
                /\ result.context.reasoning = << NoFilesReasoning >>
                /\ total_files_analyzed = 0
       /\ NoIndicatorsReasoning \in Range(result.context.reasoning)
             => /\ result.overall_compatibility = "unknown"
                /\ total_files_analyzed > 0
                /\ VerdictFindings = << >>

\* C9 witness: a verdict for a non-empty tree in which nothing matched
C9_Witness ==
    /\ IsVerdict
    /\ tree_items # << >>
    /\ NoBlobMatches
    /\ result.context.reasoning = << NoFilesReasoning >>

\* the paths of the content requests issued so far, in order
ContentRequests ==
    LET rs == SelectSeq(requests, LAMBDA r : r.op = "content")
    IN  [ i \in 1..Len(rs) |-> rs[i].path ]

\* the files of the worklists, in the order of the loops of step 4
WorklistPaths ==
    LET w == Worklist(files_to_analyze, EnabledAnalyzerNames(enabled))
    IN  [ i \in 1..Len(w) |-> w[i].path ]

IsAggregateOf(name, slot) ==
    LET outputs == raw_analysis_outputs[name] IN
    /\ DOMAIN slot = { "results", "recommendations", "reasoning" }
           \cup (IF name = "docker" THEN { "overall_potential" } ELSE {})
    /\ CASE name = "terraform" -> slot = TerraformAggregate(outputs)
         [] name = "docker" ->
               /\ Len(slot.results) = Cardinality(ImageKeys(outputs))
               /\ { r.image : r \in Range(slot.results) } = ImageKeys(outputs)
         [] name = "dependency" ->
               { r.name : r \in Range(slot.results) } = DependencyNames(outputs)

\* the analyzers whose slot holds an error
FailedAnalyzers ==
    { n \in enabled : /\ analysis_key(n) \in DOMAIN aggregated_results
                      /\ "error" \in DOMAIN aggregated_results[analysis_key(n)] }

\* C11: when aggregate_results of an analyzer raises, its slot of analysis_details
\* is {error, results: [], recommendations: [], reasoning: []}; every other
\* enabled analyzer is still aggregated, its output is in analysis_details and
\* its recommendations and reasoning are in the verdict; the run returns a
\* verdict, not an error result.
C11_AggregatorFailureIsContained ==
    (pc = "done" /\ FailedAnalyzers # {}) =>
        /\ IsVerdict
        /\ "error" \notin DOMAIN result
        /\ raised = NoException
        /\ \A n \in FailedAnalyzers :
              result.analysis_details[analysis_key(n)] =
                 [ error |-> "aggregation failed", results |-> << >>,
                   recommendations |-> << >>, reasoning |-> << >> ]
        /\ \A n \in enabled \ FailedAnalyzers :
              /\ analysis_key(n) \in DOMAIN result.analysis_details
              /\ IsAggregateOf(n, result.analysis_details[analysis_key(n)])
              /\ Range(result.analysis_details[analysis_key(n)].recommendations)
                    \subseteq Range(result.recommendations)
              /\ Range(result.analysis_details[analysis_key(n)].reasoning)
                    \subseteq Range(result.context.reasoning)

C11_Witness ==
    /\ pc = "done"
    /\ FailedAnalyzers = { "terraform" }
    /\ enabled = { "terraform", "docker" }
    /\ IsVerdict
    /\ result.analysis_details["docker_analysis"].recommendations # << >>


\* the direct calls of aggregate_results made so far
AggregateCalls == SelectSeq(calls, LAMBDA c : c.op = "aggregate_results")

\* C12: for each analyzer and any reordering of its list of per-file outputs,
\* aggregate_results returns the same set of recommendations.
C12_RecommendationsIgnoreOrder ==
    \A i, j \in 1..Len(AggregateCalls) :
        LET a == AggregateCalls[i]
            b == AggregateCalls[j]
        IN  (a.args.analyzer = b.args.analyzer
             /\ b.args.outputs \in Reorderings(a.args.outputs))
            => Range(a.value.recommendations) = Range(b.value.recommendations)


\* the direct inspections of an image made so far
InspectCalls == SelectSeq(calls, LAMBDA c : c.op = "_check_image_compatibility_via_manifest")

IsScratchKey(key) == key = Scratch \/ key = Scratch \o << ":", "latest" >>

\* C14: a base image 'scratch' is reported ARM64-compatible and its inspection
\* issues no token, manifest or blob request, on the first inspection and on
\* every later one, whether it is inspected directly or by the aggregation.
C14_ScratchNeedsNoRequest ==
    /\ \A i \in 1..Len(InspectCalls) :
          IsScratchKey(NormalizeImageKey(InspectCalls[i].args)) =>
             /\ InspectCalls[i].value.compatible = "True"
             /\ InspectCalls[i].requests = << >>
    /\ \A i \in 1..Len(AggregateCalls) :
          AggregateCalls[i].args.analyzer = "docker" =>
             /\ \A r \in Range(AggregateCalls[i].value.results) :
                   IsScratchKey(r.image) =>
                      /\ r.arm64_support_native = "True"
                      /\ r.migration_potential = "High"
             /\ \A q \in Range(AggregateCalls[i].requests) : ~IsScratchKey(q.image)
    /\ \A k \in DOMAIN manifest_cache :
          IsScratchKey(k) => manifest_cache[k].compatible = "True"

\* scratch was inspected in the first series of calls and again in the second
C14_Witness ==
    /\ Len(InspectCalls) >= 3
    /\ InspectCalls[1].args = Scratch
    /\ InspectCalls[1].run = 1
    /\ InspectCalls[3].args = Scratch
    /\ InspectCalls[3].run = 2
    /\ InspectCalls[3].value.compatible = "True"
    /\ InspectCalls[2].requests # << >>

\* the findings of the direct aggregations of the infra analyzer
HasDot(instance_type) == Len(instance_type) >= 2 /\ instance_type[2] = "."

\* C16: the infra analyzer classifies an instance type family.size by the
\* family, case-insensitively: ARM set -> already_arm, compatible, and no
\* recommendation; exclusion set -> not compatible with a reason; mapping ->
\* compatible with suggestion = mapped family + the size as written; any
\* other family -> unknown with a manual-verification recommendation.
C16_InstanceTypeRuleTable ==
    \A i \in 1..Len(AggregateCalls) :
        AggregateCalls[i].args.analyzer = "terraform" =>
        \A item \in Range(AggregateCalls[i].value.results) :
            LET it   == item.instance_type
                fam  == Lower(it[1])
                recs == { m \in Range(AggregateCalls[i].value.recommendations) : m.x = it }
            IN  HasDot(it) =>
                CASE fam \in arm_families ->
                        /\ item.compatible = "True"
                        /\ item.detail.already_arm = "True"
                        /\ recs = {}
                  [] fam \in x86_only_families ->
                        /\ item.compatible = "False"
                        /\ item.detail.reason # ""
                  [] fam \in DOMAIN instance_mapping ->
                        /\ item.compatible = "True"
                        /\ item.detail.already_arm = "False"
                        /\ item.detail.suggestion
                              = << instance_mapping[fam], "." >> \o SubSeq(it, 3, Len(it))
                        /\ \E m \in recs : m.y = item.detail.suggestion /\ m.file = item.file
                  [] OTHER ->
                        /\ item.compatible = "unknown"
                        /\ \E m \in recs :
                              m.t = "Manually verify ARM compatibility for instance type x in file."

\* a mixed-case mapped type and an excluded type were classified
C16_Witness ==
    \E i \in 1..Len(AggregateCalls) :
        /\ AggregateCalls[i].args.analyzer = "terraform"
        /\ \E item \in Range(AggregateCalls[i].value.results) :
              /\ item.instance_type = T3LargeUp
              /\ item.detail.suggestion = << "t4g", ".", "Large" >>
        /\ \E item \in Range(AggregateCalls[i].value.results) :
              item.instance_type = P3_2xlarge /\ item.compatible = "False"

\* what the registry answered for the image of a direct inspection
AnswerOf(c) == registry.images[NormalizeImageKey(c.args)]

Answered(c) == NormalizeImageKey(c.args) \in DOMAIN registry.images

\* C17: for a manifest list / OCI index the inspection returns compatible iff
\* some entry has os linux and architecture arm64 or aarch64 (read
\* case-insensitively); not compatible when some os/architecture pair is
\* listed but none is linux/arm64; unknown when no pair can be collected.
C17_ManifestListDecision ==
    \A i \in 1..Len(InspectCalls) :
        LET c == InspectCalls[i] IN
        (Answered(c) /\ AnswerOf(c).kind = "list") =>
            LET es    == Range(AnswerOf(c).entries)
                arm   == \E e \in es : Lower(e.os) = "linux" /\ Lower(e.arch) \in { "arm64", "aarch64" }
                pairs == { e \in es : e.os # "" /\ e.arch # "" }
            IN  /\ c.value.compatible = "True" <=> arm
                /\ (~arm /\ pairs # {}) => c.value.compatible = "False"
                /\ pairs = {} => c.value.compatible = "unknown"

\* lists with and without linux/arm64 and a list without any pair were inspected
C17_Witness ==
    /\ Len(InspectCalls) = 2
    /\ Answered(InspectCalls[1]) /\ AnswerOf(InspectCalls[1]).entries = << WindowsArm >>
    /\ InspectCalls[1].value.compatible = "False"
    /\ Answered(InspectCalls[2]) /\ AnswerOf(InspectCalls[2]).entries = << AmdEntry, Aarch64Entry >>
    /\ InspectCalls[2].value.compatible = "True"

\* C18: for a single manifest whose config digest is missing or whose config
\* blob cannot be fetched, the result stays unknown: neither compatible nor
\* incompatible is asserted from the top-level architecture field.
C18_TopLevelArchitectureStaysUnknown ==
    \A i \in 1..Len(InspectCalls) :
        LET c == InspectCalls[i] IN
        (/\ Answered(c)
         /\ AnswerOf(c).kind = "manifest"
         /\ ~(AnswerOf(c).config_digest /\ AnswerOf(c).config_ok))
        => c.value.compatible = "unknown"


PypiCalls == SelectSeq(calls, LAMBDA c : c.op = "_check_pypi_package_arm_compatibility")
NpmCalls == SelectSeq(calls, LAMBDA c : c.op = "_check_npm_package_compatibility")
RequirementCalls == SelectSeq(calls, LAMBDA c : c.op = "PythonDependencyChecker.check_compatibility")

\* the four fields of a lookup's result that a finding is made of
LookupFields(op, value) ==
    CASE op = "_check_npm_package_compatibility" ->
            << value.compatible, value.reason, value.checked_version, value.spec_satisfied >>
      [] op = "_check_pypi_package_arm_compatibility" ->
            << value.compatible, value.reason, value.checked_version >>
      [] op = "_check_image_compatibility_via_manifest" ->
            << value.compatible, value.reason >>
      [] OTHER -> value

\* C13: a second series of the same calls in the same process, the forge and
\* the registries answering as before, returns what the first series
\* returned: the aggregations give the same output and every lookup (package,
\* image, test archive), served from a cache or not, gives the same
\* compatibility, reason, checked version and spec_satisfied.
C13_SecondRunGivesSameResults ==
    \A i \in 1..Len(Run2Calls) :
        /\ Run2Calls[i].args = Run1Calls[i].args
        /\ Run2Calls[i].value = Run1Calls[i].value
        /\ LookupFields(Run2Calls[i].op, Run2Calls[i].value)
              = LookupFields(Run1Calls[i].op, Run1Calls[i].value)

\* a second run that served an image, a PyPI lookup with the test archive, or
\* an NPM fallback from the caches
C13_Witness ==
    /\ pc = "run2"
    /\ Len(Run2Calls) = 2
    /\ Run2Calls[2].requests = << >>
    /\ Run1Calls[2].requests # << >>
    /\ Run2Calls[2].op \in { "_check_npm_package_compatibility",
                            "PythonDependencyChecker.check_compatibility",
                            "_check_image_compatibility_via_manifest" }

\* the releases of an answer that a specifier admits
Satisfying(ans, spec) == { v \in DOMAIN ans.releases : SpecifierContains(spec, v) }

\* the line is written name<specifier> and pypi.org lists releases for it
IsSpecifiedRequirement(c) ==
    /\ c.args.name # "" /\ c.args.extras = "" /\ c.args.rest = ""
    /\ IsValidSpecifier(c.args.spec)
    /\ canonicalize_name(c.args.name) \in DOMAIN registry.pypi
    /\ LET ans == registry.pypi[canonicalize_name(c.args.name)] IN
          /\ ans.kind = "ok" /\ ans.status = 200
          /\ \A v \in DOMAIN ans.releases : IsValidVersion(v)
          /\ Satisfying(ans, c.args.spec) # {}

\* C15: for a requirements line name<specifier> the release the checker
\* inspects satisfies the written specifier and is the greatest release that
\* does; when that release has ARM wheels the finding is compatible with
\* checked_version equal to it.
C15_WrittenSpecifierIsResolved ==
    \A i \in 1..Len(RequirementCalls) :
        LET c == RequirementCalls[i] IN
        IsSpecifiedRequirement(c) =>
            LET ans     == registry.pypi[canonicalize_name(c.args.name)]
                best    == MaxVersion(Satisfying(ans, c.args.spec))
                checked == c.value[1].debug_info.pypi_check
            IN  /\ Len(c.value) = 1
                /\ checked.checked_version = best
                /\ (\E f \in Range(ans.releases[best]) : ~f.yanked /\ IsArmWheel(f))
                      => /\ c.value[1].compatible = "True"
                         /\ checked.compatible = "True"

\* the registry did not deliver a package document
IsFailure(ans) == ans.kind # "ok" \/ ans.status # 200

C20_RepeatedLookupIsServedFromCache ==
    /\ \A i, j \in 1..Len(PypiCalls) :
          (i < j /\ PypiCacheKey(PypiCalls[i].args.name, PypiCalls[i].args.spec)
                      = PypiCacheKey(PypiCalls[j].args.name, PypiCalls[j].args.spec))
             => /\ PypiCalls[j].requests = << >>
                /\ PypiCalls[j].value = PypiCalls[i].value
    /\ \A i, j \in 1..Len(NpmCalls) :
          (i < j /\ NpmCalls[i].args = NpmCalls[j].args)
             => /\ NpmCalls[j].requests = << >>
                /\ NpmCalls[j].value = NpmCalls[i].value


\* Semver range semantics, as the reference the NPM client is compared with:
\* a version as numbers, a range as the versions from lo up to hi (excluded)
SemverOf(v) ==
    CASE v = "1.3.0" -> << 1, 3, 0 >>
      [] v = "2.0.0" -> << 2, 0, 0 >>
      [] OTHER       -> << 9, 9, 9 >>

SemverLess(a, b) ==
    \/ a[1] < b[1]
    \/ a[1] = b[1] /\ a[2] < b[2]
    \/ a[1] = b[1] /\ a[2] = b[2] /\ a[3] < b[3]

RangeOf(spec) ==
    CASE spec = "^1.0.0"  -> [ lo |-> << 1, 0, 0 >>, hi |-> << 2, 0, 0 >> ]
      [] spec = ">=1.0.0" -> [ lo |-> << 1, 0, 0 >>, hi |-> << 1000, 0, 0 >> ]
      [] spec = "^9.0.0"  -> [ lo |-> << 9, 0, 0 >>, hi |-> << 10, 0, 0 >> ]
      [] OTHER            -> [ lo |-> SemverOf(spec),
                               hi |-> << SemverOf(spec)[1], SemverOf(spec)[2], SemverOf(spec)[3] + 1 >> ]

SemverSatisfying(ans, spec) ==
    { v \in DOMAIN ans.versions :
        /\ IsSemver(v)
        /\ ~SemverLess(SemverOf(v), RangeOf(spec).lo)
        /\ SemverLess(SemverOf(v), RangeOf(spec).hi) }

SemverMax(S) == CHOOSE v \in S : \A w \in S : ~SemverLess(SemverOf(v), SemverOf(w))

\* the registry listed versions for the package of the call and names a
\* latest version among them
NpmResolvable(c) ==
    /\ c.args.name \in DOMAIN registry.npm
    /\ LET ans == registry.npm[c.args.name] IN
          /\ ans.kind = "ok" /\ ans.status = 200
          /\ ans.latest \in DOMAIN ans.versions

\* C21: on a cold lookup with a range spec (^, ~, >=, ...) the NPM client
\* checks the greatest available version satisfying the spec under semver
\* range semantics, and falls back to latest only when none satisfies it.
C21_GreatestSatisfyingVersionIsResolved ==
    (NpmCalls # << >> /\ NpmResolvable(NpmCalls[1])
     /\ NpmCalls[1].args.spec \notin { "", "*", "latest" })
    => LET c   == NpmCalls[1]
           ans == registry.npm[c.args.name]
           sat == SemverSatisfying(ans, c.args.spec)
       IN  IF sat # {}
           THEN /\ c.value.checked_version = SemverMax(sat)
                /\ ~c.value.debug_info.is_fallback
           ELSE /\ c.value.checked_version = ans.latest
                /\ c.value.debug_info.is_fallback

\* the result names the fallback to latest in its reason
NamesFallback(value) ==
    \E r \in value.reason : r.t = "No version satisfied spec, fell back to latest"

\* C22: an NPM result has spec_satisfied false exactly when no available
\* version satisfied the requested spec and latest was chosen, and then its
\* reason names the fallback, on the cold path and on both cache paths; an
\* empty, '*' or 'latest' spec is not reported as a failed spec.
C22_SpecSatisfiedFalseMeansFallback ==
    \A i \in 1..Len(NpmCalls) :
        LET c == NpmCalls[i] IN
        NpmResolvable(c) =>
            LET failed == /\ c.args.spec \notin { "", "*", "latest" }
                          /\ SemverSatisfying(registry.npm[c.args.name], c.args.spec) = {}
            IN  /\ (c.value.spec_satisfied = "False") <=> failed
                /\ (c.value.spec_satisfied = "False") => NamesFallback(c.value)

\* the indicators of a version's metadata that forbid ARM64 Linux, and those
\* that call for a review
HasNoIndicator(meta) ==
    \/ meta.cpu \cap { "!arm", "!arm64" } # {}
    \/ meta.cpu # {} /\ meta.cpu \subseteq { "x64", "ia32" }
    \/ "!linux" \in meta.os
    \/ meta.os # {} /\ meta.os \subseteq { "win32", "darwin", "freebsd" }

HasPartialIndicator(meta) ==
    \/ meta.binary
    \/ meta.gyp
    \/ /\ meta.cpu # {}
       /\ meta.cpu \cap { "arm", "arm64", "any" } = {}
       /\ meta.cpu \cap NegatedOther = {}
    \/ "arm" \in meta.cpu /\ "arm64" \notin meta.cpu

\* C27: the NPM status of the checked version is no iff a no-indicator is
\* present (ARM negated in cpu, only non-ARM cpus, Linux negated in os, only
\* non-Linux os), partial iff none is and a partial indicator is (cpu without
\* ARM64, binary field, native install script), yes otherwise; a status of
\* no has a non-empty reason.
C27_NoIndicatorDominates ==
    (NpmCalls # << >> /\ NpmResolvable(NpmCalls[1]))
    => LET c    == NpmCalls[1]
           meta == registry.npm[c.args.name].versions[c.value.checked_version]
       IN  /\ c.value.compatible = "False" <=> HasNoIndicator(meta)
           /\ c.value.compatible = "partial"
                 <=> (~HasNoIndicator(meta) /\ HasPartialIndicator(meta))
           /\ c.value.compatible = "True"
                 <=> (~HasNoIndicator(meta) /\ ~HasPartialIndicator(meta))
           /\ c.value.compatible = "False" =>
                 (c.value.reason # {} /\ \A r \in c.value.reason : r.t # "")

\* a version whose cpu field calls for a review, whose os field excludes
\* Linux and which has a binary field and a native build was judged
C27_Witness ==
    /\ NpmCalls # << >> /\ NpmResolvable(NpmCalls[1])
    /\ LET meta == registry.npm["left-pad"].versions[NpmCalls[1].value.checked_version] IN
          /\ meta.cpu = { "arm" } /\ meta.os = { "!linux" } /\ meta.binary /\ meta.gyp
    /\ NpmCalls[1].value.compatible = "False"

\* C29: what an NPM lookup of (name, spec) returns as compatible,
\* spec_satisfied and reason is what a lookup with an empty cache returns,
\* whatever other specs of the package were looked up before.
C29_NpmCacheIsTransparent ==
    \A i \in 1..Len(NpmCalls) :
        LET c == NpmCalls[i] IN
        c.args.name \in DOMAIN registry.npm =>
            LET cold == CheckNpmPackage(c.args.name, c.args.spec, << >>,
                                        registry.npm[c.args.name]).result
            IN  /\ c.value.compatible = cold.compatible
                /\ c.value.spec_satisfied = cold.spec_satisfied
                /\ c.value.reason = cold.reason


\* the order of the migration potentials, and the worst of a set of them
PotentialRank(p) == CASE p = "Low" -> 1 [] p = "Medium" -> 2 [] OTHER -> 3

WorstPotential(S) ==
    IF "Low" \in S THEN "Low" ELSE IF "Medium" \in S THEN "Medium" ELSE "High"

\* what one base image and one arch-sensitive line allow at most
ImagePotential(comp) ==
    CASE comp = "True" -> "High" [] comp = "False" -> "Low" [] OTHER -> "Medium"

LinePotential(line) ==
    LET c == LineClass(line) IN
    IF c = "blocker" THEN "Low"
    ELSE IF c \in { "build_args", "none" } THEN "High"
    ELSE "Medium"

DockerAggregateCalls ==
    SelectSeq(AggregateCalls, LAMBDA c : c.args.analyzer = "docker")

\* C28: the overall migration potential of the container analyzer is the
\* worst value (Low < Medium < High) over all base images and arch-sensitive
\* lines: an image without linux/arm64 or a download/install of a non-ARM
\* binary gives Low, an image of unknown support or a line to review (copy of
\* a native library or of a file named for x86) at most Medium, a line that
\* only references TARGETARCH/TARGETPLATFORM does not lower it, and no later
\* image or line raises it.
C28_OverallPotentialIsWorst ==
    \A i \in 1..Len(DockerAggregateCalls) :
        LET c      == DockerAggregateCalls[i]
            images == { ImagePotential(c.value.results[k].arm64_support_native) :
                          k \in 1..Len(c.value.results) }
            lines  == { LinePotential(l) : l \in ArchLines(c.args.outputs) }
        IN  /\ c.value.overall_potential = WorstPotential(images \cup lines)
            /\ \A p \in images \cup lines :
                  PotentialRank(c.value.overall_potential) <= PotentialRank(p)

\* two container files were aggregated whose first image (in the order of the
\* walk) has no linux/arm64 and whose second is of unknown support, with a
\* line that references TARGETARCH and a copy of a file named for x86
C28_Witness ==
    \E i \in 1..Len(DockerAggregateCalls) :
        LET c == DockerAggregateCalls[i] IN
        /\ Len(c.value.results) = 2
        /\ c.value.results[1].arm64_support_native = "False"
        /\ c.value.results[2].arm64_support_native = "unknown"
        /\ \E l \in ArchLines(c.args.outputs) : LineClass(l) = "build_args"
        /\ \E l \in ArchLines(c.args.outputs) : LineClass(l) = "x86_named_file"
        /\ c.value.overall_potential = "Low"


\* pypi.org delivered the package document of the call's package
PypiDocument(c) ==
    /\ canonicalize_name(c.args.name) \in DOMAIN registry.pypi
    /\ LET ans == registry.pypi[canonicalize_name(c.args.name)] IN
          ans.kind = "ok" /\ ans.status = 200

\* C23: a version lookup follows the state machine of the spec: a package the
\* registry does not know ends as unknown with no version evaluated; when no
\* listed version satisfies the spec the lookup falls back to the latest
\* version and evaluates its metadata; every lookup ends in one of the
\* statuses yes, no, partial, unknown.
C23_LookupStateMachine ==
    /\ \A i \in 1..Len(PypiCalls) :
          LET c == PypiCalls[i] IN
          /\ c.value.compatible \in { "True", "False", "partial", "unknown" }
          /\ canonicalize_name(c.args.name) \in DOMAIN registry.pypi =>
                LET ans == registry.pypi[canonicalize_name(c.args.name)] IN
                /\ (ans.kind = "ok" /\ ans.status = 404)
                      => c.value.compatible = "unknown" /\ c.value.checked_version = NoVersion
                /\ (/\ PypiDocument(c)
                    /\ IsValidSpecifier(c.args.spec)
                    /\ \A v \in DOMAIN ans.releases : IsValidVersion(v)
                    /\ Satisfying(ans, c.args.spec) = {}
                    /\ ans.latest \in DOMAIN ans.releases)
                      => /\ c.value.checked_version = ans.latest
                         /\ c.value.compatible = ClassifyRelease(ans, ans.latest).compatible
    /\ \A i \in 1..Len(NpmCalls) :
          LET c == NpmCalls[i] IN
          /\ c.value.compatible \in { "True", "False", "partial", "unknown" }
          /\ c.args.name \in DOMAIN registry.npm =>
                LET ans == registry.npm[c.args.name] IN
                /\ (ans.kind = "ok" /\ ans.status = 404)
                      => c.value.compatible = "unknown" /\ c.value.checked_version = "None"
                /\ (/\ NpmResolvable(c)
                    /\ c.args.spec \notin { "", "*", "latest" }
                    /\ SemverSatisfying(ans, c.args.spec) = {})
                      => /\ c.value.checked_version = ans.latest
                         /\ c.value.compatible = MetadataCheck(ans.versions[ans.latest]).compatible

\* a wheel that is neither ARM-specific nor universal
IsNonArmWheel(f) == IsTaggedWheel(f) /\ ~IsArmWheel(f) /\ ~IsUniversalWheel(f)

\* C24: the status of the chosen release is decided by its non-yanked files
\* alone: an ARM-specific wheel gives yes; else a universal/pure wheel gives
\* yes; else a source distribution gives partial if the classifiers name
\* C/C++/Cython or a platform is specified, and yes otherwise; else non-ARM
\* wheels alone give no; a release with only yanked files or no file gives
\* unknown, with a yanked warning when the release is yanked.
C24_ReleaseFileTable ==
    \A i \in 1..Len(PypiCalls) :
        LET c == PypiCalls[i] IN
        (/\ PypiDocument(c)
         /\ c.value.checked_version
               \in DOMAIN registry.pypi[canonicalize_name(c.args.name)].releases)
        => LET ans   == registry.pypi[canonicalize_name(c.args.name)]
               files == ans.releases[c.value.checked_version]
               live  == { f \in Range(files) : ~f.yanked }
           IN  /\ c.value.compatible =
                     IF \E f \in live : IsArmWheel(f) THEN "True"
                     ELSE IF \E f \in live : IsUniversalWheel(f) THEN "True"
                     ELSE IF \E f \in live : f.packagetype = "sdist"
                     THEN IF ans.native \/ ans.platform \notin { "None", "", "any" }
                          THEN "partial" ELSE "True"
                     ELSE IF \E f \in live : IsNonArmWheel(f) THEN "False"
                     ELSE "unknown"
               /\ (files # << >> /\ \A k \in 1..Len(files) : files[k].yanked)
                     => c.value.warning = "yanked"


\* the registry's status as check_compatibility takes it over
RegistryStatus(pypi_check) ==
    IF pypi_check.compatible \in { "True", "False", "partial" }
    THEN pypi_check.compatible ELSE "unknown"

\* the archive of the Wheel Tester holds results of the package
InArchive(name) ==
    /\ registry.wheel_tester.kind = "ok"
    /\ name \in DOMAIN registry.wheel_tester.data

RecentTests(name, passed) ==
    { e \in Range(TestEnvs) :
        /\ e \in DOMAIN registry.wheel_tester.data[name]
        /\ registry.wheel_tester.data[name][e].passed = passed }

\* C25: merging the registry result with the test archive: a pass recorded on
\* a recent environment makes the finding compatible and replaces the reason,
\* whatever the registry said; failures alone make it incompatible, except
\* that a registry result of partial stays partial with the failure note
\* appended; a package absent from the archive, or an archive that cannot be
\* fetched, leaves the registry result, unknown if it gave no determination.
C25_TestArchiveMerge ==
    \A i \in 1..Len(RequirementCalls) :
        LET c == RequirementCalls[i] IN
        (Len(c.value) = 1 /\ ~c.value[1].parse_error /\ registry.wheel_tester.kind # "unasked")
        => LET v    == c.value[1]
               name == canonicalize_name(v.name)
               reg  == RegistryStatus(v.debug_info.pypi_check)
           IN  IF InArchive(name) /\ RecentTests(name, TRUE) # {}
               THEN /\ v.compatible = "True"
                    /\ v.reason.base.t = "Passed tests in Wheel Tester."
               ELSE IF InArchive(name) /\ RecentTests(name, FALSE) # {}
               THEN IF reg = "partial"
                    THEN /\ v.compatible = "partial"
                         /\ \E k \in 1..Len(v.reason.notes) :
                               v.reason.notes[k] = "Additionally, failed tests in Wheel Tester."
                    ELSE v.compatible = "False"
               ELSE v.compatible = reg


ParseCalls == SelectSeq(calls, LAMBDA c : c.op = "parse_dependencies")

\* the lines of a file that are neither empty nor a comment alone
ContentLines(file_content) ==
    SelectSeq(file_content, LAMBDA l : LineText(l.line) # "" \/ l.line.rest # "")

\* C26: parse_dependencies returns exactly one dependency per line of the
\* file that is neither empty nor a comment, in the order of the lines; a
\* line the pattern does not recognize becomes a dependency flagged
\* parse_error, and checking such a dependency gives compatibility unknown
\* without any registry request.
C26_OneDependencyPerLine ==
    /\ \A i \in 1..Len(ParseCalls) :
          LET c     == ParseCalls[i]
              lines == ContentLines(c.args)
          IN  /\ Len(c.value) = Len(lines)
              /\ \A k \in 1..Len(lines) :
                    /\ c.value[k].original_line = lines[k].line
                    /\ c.value[k].parse_error = ~LineMatches(lines[k].line)
                    /\ c.value[k].name = LineText(lines[k].line)
    /\ \A i \in 1..Len(RequirementCalls) :
          LET c == RequirementCalls[i] IN
          (LineText(c.args) # "" \/ c.args.rest # "") =>
              /\ Len(c.value) = 1
              /\ c.value[1].parse_error = ~LineMatches(c.args)
              /\ c.value[1].parse_error =>
                    /\ c.value[1].compatible = "unknown"
                    /\ c.requests = << >>

\* a file of a requirement with a comment, a comment line and an editable
\* install was parsed into two dependencies, the second flagged parse_error
C26_Witness ==
    \E i \in 1..Len(ParseCalls) :
        LET c == ParseCalls[i] IN
        /\ Len(c.args) = 3
        /\ c.args[1].line.name = "numpy" /\ c.args[1].comment # ""
        /\ LineText(c.args[2].line) = "" /\ c.args[2].comment # ""
        /\ c.args[3].line.name = "-e"
        /\ Len(c.value) = 2
        /\ ~c.value[1].parse_error /\ c.value[2].parse_error

\* the two shapes of what analyze_repository returns
IsErrorShape(r) ==
    /\ DOMAIN r = { "repository", "github_url", "error" }
    /\ r.error # << >>

IsVerdictShape(r) ==
    /\ "overall_compatibility" \in DOMAIN r
    /\ r.overall_compatibility \in { "compatible", "incompatible", "unknown" }
    /\ "error" \notin DOMAIN r

\* C30: analyze_repository is total: whatever fails (the URL, the forge, an
\* analyzer, a registry), no exception leaves it, and what it returns is
\* either an error result (key error, no overall_compatibility) or a verdict
\* (overall_compatibility one of compatible, incompatible, unknown, no key
\* error), never both and never neither.
C30_AnalyzeRepositoryIsTotal ==
    /\ raised # NoException => pc = "done"
    /\ pc = "done" =>
          /\ result # Pending
          /\ IF raised # NoException
             THEN IsErrorShape(result) /\ ~IsVerdictShape(result)
             ELSE IsVerdictShape(result) /\ ~IsErrorShape(result)

\* a request to the forge failed with an exception of a class the first
\* except clause does not name, and an error result was returned
C30_Witness ==
    /\ pc = "done"
    /\ raised.type = "RequestException"
    /\ IsErrorShape(result)

=============================================================================
